---- MODULE Spec2Model ----
(***************************************************************************)
(* Karaoke game: the App screen machine, the KaraokeScreen game loop       *)
(* (gameTick: scoring, silence streak, tomatoes, end of song), the lyric   *)
(* timeline (activeLineIndex / futureLine), the star rating and the        *)
(* usePitchDetection hook: its getUserMedia requests, streams, source      *)
(* nodes, processAudio loops and the values it publishes to the game loop. *)
(*                                                                         *)
(* Fixed point: times are tenths of a second, pitches are hundredths of a  *)
(* point of the 0..100 pitch scale, volumes are thousandths, frequencies   *)
(* are whole hertz.                                                        *)
(***************************************************************************)
EXTENDS Integers, Sequences, FiniteSets, TLC

VARIABLES
    appState,          \* App: HOME | LOADING_LYRICS | KARAOKE | SCORE
    lyrics,            \* App: the parsed LyricLine sequence
    songDetails,       \* App: the chosen song, or NoSong (null)
    finalScore,        \* App: the score reported by onSongEnd
    appError,          \* App: an error message is shown
    history,           \* App (useSongHistory): the songs played, latest first
    details,           \* App: the song of the handleStartKaraoke call in flight
    fetch,             \* fetchLyrics: the call in flight, or NoFetch
    isSearching,       \* HomeScreen state
    searchResults,     \* HomeScreen state: the videos found
    processingVideoId, \* HomeScreen state
    unplayableVideoIds, \* HomeScreen state
    videoCheck,        \* HomeScreen: handleVideoSelect is at one of its awaits
    deferEffects,      \* React renders the updates of frame callbacks and runs
                       \* passive effects after later animation frames
    mounted,           \* the KaraokeScreen is mounted (its cleanups have not run)
    loopFrame,         \* KaraokeScreen: a gameTick animation frame is requested
    loopStale,         \* KaraokeScreen: the game-loop effect is due to re-run
    songEnds,          \* history: onSongEnd calls of this session
    isPlayerReady,     \* KaraokeScreen state
    isPlaying,         \* KaraokeScreen state
    playerState,       \* YT.Player: getPlayerState()
    playerTime,        \* YT.Player: the playback position last read
    currentTime,       \* KaraokeScreen state (last time read by gameTick)
    score,             \* KaraokeScreen state
    scoreRef,          \* KaraokeScreen ref: the score of the last render
    selectedMicId,     \* KaraokeScreen state
    tomatoes,          \* KaraokeScreen state: sequence of tomato ids
    lyricsOffset,      \* KaraokeScreen state
    noSingingCounter,  \* KaraokeScreen ref
    userPitch,         \* usePitchDetection state
    micVolume,         \* usePitchDetection state
    isMicReady,        \* usePitchDetection state
    micError,          \* usePitchDetection state (error # null)
    fundamentalFreq,   \* history: the frequency found in the published frame
    requests,          \* getUserMedia calls of the hook: device, stream, node
    streamRef,         \* usePitchDetection ref: request whose stream it holds
    sourceNodeRef,     \* usePitchDetection ref: request whose source node it holds
    animationFrameId,  \* usePitchDetection ref: request whose loop stored its id
    frameQueue,        \* processAudio callbacks requested, in registration order
    tomatoesThrown,    \* tomatoes created in this session (source of ids)
    removeTimers,      \* Tomato components: time since each set its timer
    silentRun,         \* history: consecutive silent ticks since the streak was 0
    runTomatoes        \* history: tomatoes thrown by the ticks of that run

vars == << appState, lyrics, songDetails, finalScore, appError, history,
           details, fetch,
           isSearching, searchResults, processingVideoId, unplayableVideoIds,
           videoCheck, deferEffects,
           mounted, loopFrame, loopStale, songEnds, isPlayerReady, isPlaying,
           playerState, playerTime,
           currentTime, score, scoreRef, selectedMicId, tomatoes, lyricsOffset,
           noSingingCounter, userPitch, micVolume, isMicReady, micError,
           fundamentalFreq, requests, streamRef, sourceNodeRef, animationFrameId, frameQueue,
           tomatoesThrown, removeTimers, silentRun, runTomatoes >>

-----------------------------------------------------------------------------
(* Bounds of the model *)

MaxScore == 5          \* ticks that would take the score above it are not explored
MaxTomatoes == 1       \* tomatoes thrown per session
MaxOffsetSteps == 1    \* handleAdjustSync steps away from 0, either way
MaxPending == 2        \* getUserMedia requests in flight at once
MaxRequests == 3       \* getUserMedia calls per session
MaxSongEnds == 2       \* onSongEnd calls per session
MaxStreak == 2         \* silence streak explored by SpecScoring
MaxLines == 2          \* lyric lines per sequence in SpecTimeline
SpectrumBins == 2      \* length of the byte spectrum (frequencyBinCount)
MaxLrcLines == 3       \* lines of an LRC text
MaxShower == 2         \* tomatoes thrown per session of the tomato clock

-----------------------------------------------------------------------------
(* Program constants *)

SONG_DURATION_S == 1800      \* 180 s
SingingThreshold == 50       \* micVolume > 0.05
SilenceLimit == 120          \* noSingingCounter.current > 120
GoodDiff == 1000             \* pitchDifference < 10
OkDiff == 2000               \* pitchDifference < 20
GoodPoints == 5
OkPoints == 2
StarScore == 3000            \* Math.floor(score / 3000)
StarCount == 5               \* [...Array(5)]
TailSeconds == 20            \* Math.max(...endTime) + 2
SyncStep == 5                \* handleAdjustSync(+-0.5)
QuietThreshold == 10         \* rms > 0.01
ByteMax == 255               \* largest element of a Uint8Array
RmsDivisor == 128            \* Math.sqrt(sum / length) / 128.0
MinLag == 80                 \* for (let offset = 80; ...
CorrelationThreshold == 10   \* threshold = 0.1, in hundredths
LastLineSeconds == 50        \* lastLine.startTime + 5
MAX_HISTORY_SIZE == 5
TimeoutSeconds == 12         \* timeoutMs = 12000
TomatoLifetime == 20         \* setTimeout(() => onEnd(id), 2000)
PerLine == 35                \* perLine = 3.5, in tenths of a second

None == [text |-> "", startTime |-> -1, endTime |-> -1]
BufferLength == 164          \* bufferLength = analyser.frequencyBinCount: even
NoDevice == "null"
Devices == {"mic1"}
MicDevices == {"mic1", "mic2"}
SongDetails(title, video) == [title |-> title, youtubeUrl |-> video]
NoSong == SongDetails("null", "null")
Song == SongDetails("t1", "v1")
Titles == {"t1"}
NoVideo == "null"
Videos == {"v1"}

\* the removeTimer of the Tomato with this id was set elapsed tenths ago
Timer(id, elapsed) == [id |-> id, elapsed |-> elapsed]

\* no fetchLyrics call is in flight
NoFetch == [pc |-> "none", primary |-> "none", fallback |-> "none",
            fallbackCalls |-> 0, inTry |-> FALSE, elapsed |-> 0, text |-> << >>]
\* fetchLyrics has entered its try block, called generateContent and set
\* the timer of timeoutPromise
FetchStarted == [pc |-> "primary", primary |-> "pending", fallback |-> "none",
                 fallbackCalls |-> 0, inTry |-> TRUE, elapsed |-> 0,
                 text |-> << >>]

-----------------------------------------------------------------------------
(* Pure functions *)

Abs(x) == IF x < 0 THEN -x ELSE x
Max(a, b) == IF a > b THEN a ELSE b
Min(a, b) == IF a < b THEN a ELSE b

\* 50 + Math.sin(t * 1.5) * 30 at t = 0.0, 0.1, ... 13.0 s, in hundredths
TargetPitchTable == <<
    5000, 5448, 5887, 6305, 6694, 7045, 7350, 7602, 7796, 7927,
    7992, 7991, 7922, 7787, 7590, 7334, 7026, 6673, 6282, 5862,
    5423, 4975, 4527, 4089, 3672, 3285, 2937, 2634, 2385, 2195,
    2067, 2006, 2012, 2084, 2223, 2423, 2682, 2992, 3348, 3741,
    4162, 4602, 5050, 5498, 5935, 6350, 6735, 7082, 7381, 7627,
    7814, 7938, 7996, 7986, 7910, 7768, 7564, 7302, 6989, 6631,
    6236, 5814, 5373, 4924, 4477, 4041, 3627, 3244, 2900, 2604,
    2361, 2177, 2057, 2003, 2016, 2097, 2242, 2449, 2714, 3030,
    3390, 3787, 4210, 4652, 5101, 5548, 5982, 6395, 6776, 7118,
    7411, 7651, 7831, 7948, 7998, 7981, 7897, 7748, 7537, 7270,
    6951, 6588, 6190, 5765, 5323, 4874, 4427, 3994, 3583, 3204,
    2865, 2574, 2337, 2161, 2048, 2001, 2022, 2110, 2262, 2476,
    2747, 3068, 3433, 3833, 4259, 4702, 5151, 5597, 6030, 6439,
    6817 >>

TargetPitch(t) == TargetPitchTable[t + 1]

\* Math.max(0, Math.min(100, (fundamentalFreq - 100) / 4))
\* PitchValue that centres the pitch when no frequency was found
PitchValueCentred(f) ==
    IF f = 0 THEN 5000 ELSE Max(0, Min(10000, 25 * (f - 100)))

PitchValue(f) == Max(0, Min(10000, 25 * (f - 100)))

\* the integer part of the square root
ISqrt(n, hi) == CHOOSE r \in 0..hi : r * r <= n /\ (r + 1) * (r + 1) > n

RECURSIVE SumOfSquares(_)
SumOfSquares(a) ==
    IF a = << >> THEN 0 ELSE a[1] * a[1] + SumOfSquares(Tail(a))

\* processAudio: rms = Math.sqrt(sum / volumeArray.length) / 128.0, in
\* thousandths; the square root is taken to one decimal
Rms(volumeArray) ==
    (ISqrt((SumOfSquares(volumeArray) * 100) \div Len(volumeArray),
           10 * ByteMax) * 100) \div RmsDivisor

\* findFundamentalFreq, inner loop: the sum of buffer[i] * buffer[i + offset]
\* for i < buffer.length / 2, from index i on; samples are tenths, the sum
\* is in hundredths
RECURSIVE CorrelationFrom(_, _, _)
CorrelationFrom(buffer, offset, i) ==
    IF 2 * i >= Len(buffer) THEN 0
    ELSE buffer[i + 1] * buffer[i + offset + 1]
            + CorrelationFrom(buffer, offset, i + 1)

\* the indices of the buffer findFundamentalFreq reads, from 0
IndicesRead(buffer) ==
    UNION { {i, i + offset} : offset \in {o \in MinLag..Len(buffer) :
                                            2 * o < Len(buffer)},
                             i \in {j \in 0..Len(buffer) :
                                            2 * j < Len(buffer)} }

\* BestFrom that also tries the offset buffer.length / 2
RECURSIVE BestFromInclusive(_, _, _)
BestFromInclusive(buffer, offset, best) ==
    IF 2 * offset > Len(buffer) THEN best
    ELSE LET c == CorrelationFrom(buffer, offset, 0)
         IN  BestFromInclusive(buffer, offset + 1,
                      IF c > best.c THEN [c |-> c, o |-> offset] ELSE best)

\* findFundamentalFreq, outer loop from offset on: best.c is the sum of the
\* best correlation so far (every correlation is its sum divided by the same
\* buffer.length / 2), best.o its offset
RECURSIVE BestFrom(_, _, _)
BestFrom(buffer, offset, best) ==
    IF 2 * offset >= Len(buffer) THEN best
    ELSE LET c == CorrelationFrom(buffer, offset, 0)
         IN  BestFrom(buffer, offset + 1,
                      IF c > best.c THEN [c |-> c, o |-> offset] ELSE best)

\* findFundamentalFreq, in whole hertz: bestCorrelation > threshold is
\* sum / (length / 2) > 0.1
FindFundamentalFreq(buffer, sampleRate) ==
    LET best == BestFrom(buffer, MinLag, [c |-> 0, o |-> -1])
    IN  IF 2 * best.c > CorrelationThreshold * Len(buffer)
        THEN sampleRate \div best.o
        ELSE 0

\* Award with the good-pitch boundary included (diff <= 10 scores 5)
AwardInclusive(diff) ==
    IF diff <= GoodDiff THEN GoodPoints
    ELSE IF diff < OkDiff THEN OkPoints
    ELSE 0

\* Award with a penalty for a bad pitch
AwardPenalty(diff) ==
    IF diff < GoodDiff THEN GoodPoints
    ELSE IF diff < OkDiff THEN OkPoints
    ELSE -OkPoints

\* the points gameTick awards for a pitch difference
Award(diff) ==
    IF diff < GoodDiff THEN GoodPoints
    ELSE IF diff < OkDiff THEN OkPoints
    ELSE 0

RECURSIVE MaxEndTime(_)
MaxEndTime(l) ==
    IF Len(l) = 1 THEN l[1].endTime
    ELSE Max(l[1].endTime, MaxEndTime(Tail(l)))

SongDuration(l) ==
    IF Len(l) > 0 THEN MaxEndTime(l) + TailSeconds ELSE SONG_DURATION_S

\* LineMatches with the sign of the offset flipped
LineMatchesFlipped(line, t, offset) ==
    /\ t >= line.startTime + offset
    /\ t < line.endTime + offset

\* the predicate handed to lyrics.findIndex
LineMatches(line, t, offset) ==
    /\ t >= line.startTime - offset
    /\ t < line.endTime - offset

\* findIndex scanning from the end (findLastIndex)
RECURSIVE FindLastIndexFrom(_, _, _, _)
FindLastIndexFrom(l, i, t, offset) ==
    IF i > Len(l) THEN -1
    ELSE LET rest == FindLastIndexFrom(l, i + 1, t, offset)
         IN  IF rest # -1 THEN rest
             ELSE IF (t >= l[i].startTime - offset /\ t < l[i].endTime - offset)
                  THEN i - 1
                  ELSE -1

\* Array.prototype.findIndex, 0-based, -1 when nothing matches
RECURSIVE FindIndexFrom(_, _, _, _)
FindIndexFrom(l, i, t, offset) ==
    IF i > Len(l) THEN -1
    ELSE IF LineMatches(l[i], t, offset) THEN i - 1
    ELSE FindIndexFrom(l, i + 1, t, offset)

ActiveLineIndexOf(l, t, offset) == FindIndexFrom(l, 1, t, offset)

\* ActiveLineOf that ignores the offset
ActiveLineOfNoOffset(l, t, offset) ==
    LET i == FindIndexFrom(l, 1, t, 0)
    IN  IF i # -1 THEN l[i + 1] ELSE None

ActiveLineOf(l, t, offset) ==
    LET i == ActiveLineIndexOf(l, t, offset)
    IN  IF i # -1 THEN l[i + 1] ELSE None

\* futureLine wrapping round to the first line after the last one
FutureLineWrapping(l, t, offset) ==
    LET i == FindIndexFrom(l, 1, t, offset)
    IN  IF i < Len(l) - 1 THEN l[i + 2] ELSE l[1]

FutureLineOf(l, t, offset) ==
    LET i == ActiveLineIndexOf(l, t, offset)
    IN  IF i < Len(l) - 1 THEN l[i + 2] ELSE None

activeLineIndex == ActiveLineIndexOf(lyrics, currentTime, lyricsOffset)
activeLine == ActiveLineOf(lyrics, currentTime, lyricsOffset)
futureLine == FutureLineOf(lyrics, currentTime, lyricsOffset)

\* KaraokeScreen: const stars, and the StarIcons it lights (i < stars)
GameStars(s) == s \div StarScore
GameLitStars(s) == Cardinality({i \in 0..(StarCount - 1) : i < GameStars(s)})

\* ScoreScreen: const stars, and the StarIcons it lights
\* parseLRC works on texts as sequences of one-character strings
Digit == [c \in {"0", "1", "2", "3", "4", "5", "6", "7", "8", "9"} |->
            CASE c = "0" -> 0 [] c = "1" -> 1 [] c = "2" -> 2 [] c = "3" -> 3
              [] c = "4" -> 4 [] c = "5" -> 5 [] c = "6" -> 6 [] c = "7" -> 7
              [] c = "8" -> 8 [] c = "9" -> 9]
IsDigit(c) == c \in DOMAIN Digit

\* lrcText.split('\n')
RECURSIVE Split(_)
Split(text) ==
    LET breaks == {i \in 1..Len(text) : text[i] = "\n"}
    IN  IF breaks = {} THEN << text >>
        ELSE LET i == CHOOSE b \in breaks : \A c \in breaks : b <= c
             IN  << SubSeq(text, 1, i - 1) >>
                     \o Split(SubSeq(text, i + 1, Len(text)))

\* the number of digits \d{2,3} matches in /^\[\d{2}:\d{2}\.\d{2,3}\]/, 0 when
\* the line does not match
MsDigits(line) ==
    IF /\ Len(line) >= 10
       /\ line[1] = "[" /\ IsDigit(line[2]) /\ IsDigit(line[3])
       /\ line[4] = ":" /\ IsDigit(line[5]) /\ IsDigit(line[6])
       /\ line[7] = "." /\ IsDigit(line[8]) /\ IsDigit(line[9])
    THEN IF line[10] = "]" THEN 2
         ELSE IF Len(line) >= 11 /\ IsDigit(line[10]) /\ line[11] = "]" THEN 3
         ELSE 0
    ELSE 0

\* line.match(/^\[\d{2}:\d{2}\.\d{2,3}\]/)
HasTimestamp(line) == MsDigits(line) > 0

\* parseInt(digits, 10)
RECURSIVE ParseInt(_)
ParseInt(digits) ==
    IF Len(digits) = 0 THEN 0
    ELSE 10 * ParseInt(SubSeq(digits, 1, Len(digits) - 1))
            + Digit[digits[Len(digits)]]

\* ms.padEnd(3, '0')
PadEnd3(digits) == IF Len(digits) < 3 THEN digits \o << "0" >> ELSE digits

\* min * 60 + sec + ms / 1000 of a matching line, in tenths of a second
\* (the inputs have whole tenths)
StampTime(line) ==
    LET min == ParseInt(SubSeq(line, 2, 3))
        sec == ParseInt(SubSeq(line, 5, 6))
        ms  == ParseInt(PadEnd3(SubSeq(line, 8, 7 + MsDigits(line))))
    IN  (min * 60 + sec) * 10 + ms \div 100

\* text.trim()
RECURSIVE Trim(_)
Trim(chars) ==
    IF Len(chars) = 0 THEN chars
    ELSE IF Head(chars) = " " THEN Trim(Tail(chars))
    ELSE IF chars[Len(chars)] = " " THEN Trim(SubSeq(chars, 1, Len(chars) - 1))
    ELSE chars

\* the characters as a string
RECURSIVE Str(_)
Str(chars) == IF Len(chars) = 0 THEN "" ELSE Head(chars) \o Str(Tail(chars))

\* the (.*) group of a matching line, trimmed
StampText(line) ==
    Str(Trim(SubSeq(line, 9 + MsDigits(line), Len(line))))

\* TimedLyrics that gives every line the assumed song duration as its end
TimedLyricsUnlinked(lines) ==
    [i \in 1..Len(lines) |->
        [text      |-> StampText(lines[i]),
         startTime |-> StampTime(lines[i]),
         endTime   |-> SONG_DURATION_S]]

\* the lines parseLRC pushes for the filtered lines
TimedLyrics(lines) ==
    [i \in 1..Len(lines) |->
        [text      |-> StampText(lines[i]),
         startTime |-> StampTime(lines[i]),
         endTime   |-> IF i + 1 <= Len(lines) THEN StampTime(lines[i + 1])
                       ELSE SONG_DURATION_S]]

\* parseLRC that stops at the first line without a timestamp
ParseLRCStopping(lrcText) ==
    LET all == Split(lrcText)
        bad == {i \in 1..Len(all) : ~HasTimestamp(all[i])}
        stop == IF bad = {} THEN Len(all) + 1
                ELSE CHOOSE i \in bad : \A j \in bad : i <= j
        lines == SubSeq(all, 1, stop - 1)
        timedLyrics == TimedLyrics(lines)
        n == Len(lines)
    IN  IF n = 0 THEN << >>
        ELSE [i \in 1..n |->
                IF i = n /\ timedLyrics[n].endTime = SONG_DURATION_S
                THEN [timedLyrics[n] EXCEPT
                        !.endTime = timedLyrics[n].startTime + LastLineSeconds]
                ELSE timedLyrics[i]]

\* parseLRC
ParseLRC(lrcText) ==
    LET lines == SelectSeq(Split(lrcText), HasTimestamp)
        timedLyrics == TimedLyrics(lines)
        n == Len(lines)
    IN  IF n = 0 THEN << >>
        ELSE [i \in 1..n |->
                IF i = n /\ timedLyrics[n].endTime = SONG_DURATION_S
                THEN [timedLyrics[n] EXCEPT
                        !.endTime = timedLyrics[n].startTime + LastLineSeconds]
                ELSE timedLyrics[i]]

\* String.prototype.trim applied to a whole text
RECURSIVE TrimText(_)
TrimText(chars) ==
    IF Len(chars) = 0 THEN chars
    ELSE IF Head(chars) \in {" ", "\n"} THEN TrimText(Tail(chars))
    ELSE IF chars[Len(chars)] \in {" ", "\n"}
         THEN TrimText(SubSeq(chars, 1, Len(chars) - 1))
    ELSE chars

\* lines.join('\n') of a non-empty array
RECURSIVE Join(_)
Join(lines) ==
    IF Len(lines) = 1 THEN lines[1]
    ELSE lines[1] \o << "\n" >> \o Join(Tail(lines))

\* pad(n): n.toString().padStart(2, '0'), for n < 100
DigitChars == << "0", "1", "2", "3", "4", "5", "6", "7", "8", "9" >>
Pad(n) == << DigitChars[(n \div 10) + 1], DigitChars[(n % 10) + 1] >>

\* toTimestamp(seconds) of fetchLyricsFromFallback, seconds in tenths
ToTimestamp(seconds) ==
    LET mm == seconds \div 600
        ss == (seconds \div 10) % 60
        cs == (seconds % 10) * 10
    IN  << "[" >> \o Pad(mm) \o << ":" >> \o Pad(ss) \o << "." >> \o Pad(cs)
            \o << "]" >>

\* raw.split(/\r?\n/).map(l => l.trim()).filter(l => l.length > 0)
FallbackLines(raw) ==
    LET split == Split(raw)
        trimmed == [i \in 1..Len(split) |-> Trim(split[i])]
    IN  SelectSeq(trimmed, LAMBDA l : Len(l) > 0)

\* the naive LRC fetchLyricsFromFallback builds from the usable lines
FallbackLrc(lines) ==
    Join([i \in 1..Len(lines) |->
            ToTimestamp((i - 1) * PerLine) \o lines[i]])

\* fetchLyricsFromFallback throws for this response of lyrics.ovh
FallbackThrows(res) ==
    \/ ~res.ok
    \/ Len(TrimText(res.lyrics)) = 0
    \/ Len(FallbackLines(res.lyrics)) = 0

\* addSongToHistory that keeps an entry of the same url where it was
AddSongToHistoryKeeping(prevHistory, song) ==
    IF \E i \in 1..Len(prevHistory) :
            prevHistory[i].youtubeUrl = song.youtubeUrl
    THEN prevHistory
    ELSE SubSeq(<< song >> \o prevHistory, 1,
                Min(MAX_HISTORY_SIZE, Len(prevHistory) + 1))

\* the updater of addSongToHistory
AddSongToHistory(prevHistory, song) ==
    LET filteredHistory ==
            SelectSeq(prevHistory,
                      LAMBDA item : item.youtubeUrl # song.youtubeUrl)
        newHistory == << song >> \o filteredHistory
    IN  SubSeq(newHistory, 1, Min(MAX_HISTORY_SIZE, Len(newHistory)))

ScoreScreenStars(s) == Max(1, Min(5, (s \div StarScore) + 1))
ScoreScreenLitStars(s) ==
    Cardinality({i \in 0..(StarCount - 1) : i < ScoreScreenStars(s)})

-----------------------------------------------------------------------------
(* Inputs *)

Line(text, s, e) == [text |-> text, startTime |-> s, endTime |-> e]

\* parseLRC of "[00:00.00]a\n[00:05.00]b"
SessionLyrics == { << Line("a", 0, 50), Line("b", 50, 100) >> }

\* playback positions getCurrentTime() is sampled at
GameTimes == {0, 70, 120}
FineTimes == {0, 10, 30, 70, 110, 120}

\* analyser frames: v the rms of the byte spectrum, f the fundamental
\* frequency of the time-domain data (0: no clear pitch)
Frame(v, f) == [v |-> v, f |-> f]
GameFrames == {Frame(0, 0), Frame(50, 280), Frame(60, 280)}
FineFrames == {Frame(v, f) : v \in {0, 40, 50, 51, 600},
                            f \in {0, 220, 221, 260, 261, 280, 340}}

\* frames around the quiet threshold 0.01 and the ends 100 Hz and 500 Hz of
\* the pitch scale
PitchFrames == {Frame(v, f) : v \in {0, 10, 11, 600},
                             f \in {0, 100, 101, 104, 300, 500, 501, 600}}

\* search results of the history specification, more than MAX_HISTORY_SIZE,
\* and the titles extractSongDetailsFromTitle may answer for one of them
HistoryVideos == {"v1", "v2", "v3", "v4", "v5", "v6"}
TitlesOf(video) == IF video = "v1" THEN {"t1", "t2"} ELSE {"t1"}

\* byte spectra getByteFrequencyData fills in
ByteLevels == {0, 7, 128, ByteMax}
Spectra == [1..SpectrumBins -> ByteLevels]

\* time-domain buffers getFloatTimeDomainData fills in, samples in tenths:
\* eight samples of 1.0 and one of x at the start, the same shape with y
\* again lag samples later, silence elsewhere
PulseBuffer(lag, x, y) ==
    [i \in 1..BufferLength |->
        IF i - 1 < 8 THEN 10
        ELSE IF i - 1 = 8 THEN x
        ELSE IF i - 1 >= lag /\ i - 1 < lag + 8 THEN 10
        ELSE IF i - 1 = lag + 8 THEN y
        ELSE 0]
Buffers == {PulseBuffer(lag, x, y) :
                                    lag \in {MinLag, MinLag + 1, BufferLength \div 2},
                                    x \in {0, 2, 10}, y \in {0, 2, 10}}
SampleRate == 48000

\* the frames processAudio computes from them
AnalysedBuffers ==
    {[buffer |-> b, f |-> FindFundamentalFreq(b, SampleRate)] : b \in Buffers}
LoudnessValues == {Rms(sp) : sp \in Spectra}
AnalysedFrames == {Frame(v, ab.f) : v \in LoudnessValues,
                                   ab \in AnalysedBuffers}

\* LRC texts fetchLyrics resolves with: up to MaxLrcLines lines joined by
\* newlines, with and without a timestamp, timestamps in any order
Stamp(sec, ms) ==
    << "[", "0", "0", ":", "0" >> \o << sec >> \o << "." >> \o ms \o << "]" >>
LrcLines == { Stamp("0", << "0", "0" >>) \o << "a" >>,
             Stamp("5", << "0", "0" >>) \o << " ", "b", " " >>,
             Stamp("7", << "5", "0", "0" >>),
             Stamp("5", << "0" >>) \o << "c" >>,
             << " " >> \o Stamp("0", << "0", "0" >>) \o << "d" >>,
             << "[", "0", "3", ":", "0", "0", ".", "0", "0", "]", "f" >>,
             << "e" >> }
LrcTexts == { << >> } \cup
            UNION { {Join(ls) : ls \in [1..n -> LrcLines]} : n \in 1..MaxLrcLines }

\* lyric sequences of the timeline specification: up to MaxLines lines sorted
\* by startTime, endTime >= startTime, gaps and overlaps allowed
LineTexts == << "a", "b", "c", "d" >>
Intervals == {iv \in [s : {0, 10, 20}, e : {10, 20, 30}] : iv.s <= iv.e}
LyricsOfLength(n) ==
    { [i \in 1..n |-> Line(LineTexts[i], ivs[i].s, ivs[i].e)] :
        ivs \in {x \in [1..n -> Intervals] :
                    \A i \in 1..(n - 1) : x[i].s <= x[i + 1].s} }
TimelineLyrics == UNION {LyricsOfLength(n) : n \in 1..MaxLines}
TimelineTimes == {0, 5, 10, 15, 20, 25, 30, 35, 46, 50}

-----------------------------------------------------------------------------
(* Initial state: App mounted, HOME screen *)

InitApp ==
    /\ appState = "HOME"
    /\ lyrics = << >>
    /\ songDetails = NoSong
    /\ finalScore = 0
    /\ appError = FALSE
    /\ history = << >>
    /\ details = NoSong
    /\ fetch = NoFetch
    /\ isSearching = FALSE
    /\ searchResults = {}
    /\ processingVideoId = NoVideo
    /\ unplayableVideoIds = {}
    /\ videoCheck = FALSE
    /\ mounted = FALSE
    /\ loopFrame = FALSE
    /\ loopStale = FALSE
    /\ songEnds = 0
    /\ isPlayerReady = FALSE
    /\ isPlaying = FALSE
    /\ playerState = "UNSTARTED"
    /\ playerTime = 0
    /\ currentTime = 0
    /\ score = 0
    /\ scoreRef = 0
    /\ selectedMicId = NoDevice
    /\ tomatoes = << >>
    /\ lyricsOffset = 0
    /\ noSingingCounter = 0
    /\ userPitch = 0
    /\ micVolume = 0
    /\ isMicReady = FALSE
    /\ micError = FALSE
    /\ fundamentalFreq = 0
    /\ requests = << >>
    /\ streamRef = 0
    /\ sourceNodeRef = 0
    /\ animationFrameId = 0
    /\ frameQueue = << >>
    /\ tomatoesThrown = 0
    /\ removeTimers = {}
    /\ silentRun = 0
    /\ runTomatoes = 0

\* passive effects run before the next animation frame
Init == InitApp /\ deferEffects = FALSE

\* the KaraokeScreen is mounted and no onSongEnd call awaits its render
InSession == mounted /\ appState = "KARAOKE"

homeVars == << isSearching, searchResults, processingVideoId,
               unplayableVideoIds, videoCheck >>
appVars == << appState, lyrics, songDetails, finalScore, appError, history,
             details, fetch,
              homeVars, deferEffects >>
loopVars == << mounted, loopFrame, loopStale, songEnds >>
playerVars == << playerState, playerTime >>
screenVars == << isPlayerReady, isPlaying, playerVars, currentTime, score,
                 scoreRef, selectedMicId, tomatoes, lyricsOffset,
                 noSingingCounter, tomatoesThrown,
                 removeTimers, silentRun, runTomatoes >>
publishedVars == << userPitch, micVolume, isMicReady, micError,
                    fundamentalFreq >>
captureVars == << requests, streamRef, sourceNodeRef, animationFrameId,
                  frameQueue >>
hookVars == << publishedVars, captureVars >>

\* getUserMedia requests in flight, processAudio loops running
micPending == Cardinality({i \in DOMAIN requests : requests[i].st = "pending"})
audioLoops == Len(frameQueue)

-----------------------------------------------------------------------------
(* App *)

\* handleStartKaraoke up to its await
HandleStartKaraoke(d) ==
    /\ appState = "HOME"
    /\ appState' = "LOADING_LYRICS"
    /\ appError' = FALSE
    /\ details' = d
    /\ fetch' = FetchStarted
    /\ UNCHANGED << lyrics, songDetails, finalScore, history, deferEffects >>
    /\ UNCHANGED loopVars
    /\ UNCHANGED screenVars
    /\ UNCHANGED hookVars

\* the useState initial values of the HomeScreen
HomeScreenInitial ==
    /\ isSearching' = FALSE
    /\ searchResults' = {}
    /\ processingVideoId' = NoVideo
    /\ unplayableVideoIds' = {}
    /\ videoCheck' = FALSE

\* the getUserMedia call of setupMic for device d
Request(d) == [dev |-> d, st |-> "pending", node |-> FALSE]

\* ScreenInitial of a KaraokeScreen that finds the score it had before
ScreenInitialKeepingScore ==
    /\ isPlayerReady' = FALSE
    /\ isPlaying' = FALSE
    /\ playerState' = "UNSTARTED"
    /\ playerTime' = 0
    /\ currentTime' = 0
    /\ score' = score
    /\ scoreRef' = score
    /\ selectedMicId' = NoDevice
    /\ tomatoes' = << >>
    /\ lyricsOffset' = 0
    /\ noSingingCounter' = 0
    /\ tomatoesThrown' = 0
    /\ removeTimers' = {}
    /\ silentRun' = 0
    /\ runTomatoes' = 0
    /\ userPitch' = 0
    /\ micVolume' = 0
    /\ isMicReady' = FALSE
    /\ micError' = FALSE
    /\ fundamentalFreq' = 0

\* the useState / useRef initial values of the KaraokeScreen and of the
\* state of its usePitchDetection hook
ScreenInitial ==
    /\ isPlayerReady' = FALSE
    /\ isPlaying' = FALSE
    /\ playerState' = "UNSTARTED"
    /\ playerTime' = 0
    /\ currentTime' = 0
    /\ score' = 0
    /\ scoreRef' = 0
    /\ selectedMicId' = NoDevice
    /\ tomatoes' = << >>
    /\ lyricsOffset' = 0
    /\ noSingingCounter' = 0
    /\ tomatoesThrown' = 0
    /\ removeTimers' = {}
    /\ silentRun' = 0
    /\ runTomatoes' = 0
    /\ userPitch' = 0
    /\ micVolume' = 0
    /\ isMicReady' = FALSE
    /\ micError' = FALSE
    /\ fundamentalFreq' = 0

\* the KaraokeScreen and its usePitchDetection hook mount, and setupMic has
\* called getUserMedia
MountKaraokeScreen ==
    /\ mounted' = TRUE
    /\ loopFrame' = FALSE
    /\ loopStale' = FALSE
    /\ songEnds' = 0
    /\ ScreenInitial
    /\ requests' = << Request(NoDevice) >>
    /\ streamRef' = 0
    /\ sourceNodeRef' = 0
    /\ animationFrameId' = 0
    /\ frameQueue' = << >>

\* LyricsLoaded without the timedLyrics.length === 0 test
LyricsLoadedUnchecked(l) ==
    /\ appState = "LOADING_LYRICS"
    /\ lyrics' = l
    /\ songDetails' = details
    /\ appState' = "KARAOKE"
    /\ history' = AddSongToHistory(history, details)
    /\ details' = NoSong
    /\ fetch' = NoFetch
    /\ HomeScreenInitial
    /\ UNCHANGED << finalScore, appError, deferEffects >>
    /\ MountKaraokeScreen

\* handleStartKaraoke after fetchLyrics resolved and parseLRC returned l
LyricsLoaded(l) ==
    /\ appState = "LOADING_LYRICS"
    /\ IF Len(l) = 0
       THEN /\ appError' = TRUE
            /\ appState' = "HOME"
            /\ details' = NoSong
            /\ fetch' = NoFetch
            /\ UNCHANGED << lyrics, songDetails, finalScore, history, homeVars,
                            deferEffects >>
            /\ UNCHANGED loopVars
            /\ UNCHANGED screenVars
            /\ UNCHANGED hookVars
       ELSE /\ lyrics' = l
            /\ songDetails' = details
            /\ appState' = "KARAOKE"
            /\ history' = AddSongToHistory(history, details)
            /\ details' = NoSong
            /\ fetch' = NoFetch
            /\ HomeScreenInitial
            /\ UNCHANGED << finalScore, appError, deferEffects >>
            /\ MountKaraokeScreen

\* handleStartKaraoke after fetchLyrics resolved with lrcText
LyricsFetched(lrcText) == LyricsLoaded(ParseLRC(lrcText))

\* LyricsFailed after the song was put in the history
LyricsFailedAdding ==
    /\ appState = "LOADING_LYRICS"
    /\ appError' = TRUE
    /\ appState' = "HOME"
    /\ details' = NoSong
    /\ fetch' = NoFetch
    /\ history' = AddSongToHistory(history, details)
    /\ UNCHANGED << lyrics, songDetails, finalScore, homeVars, deferEffects >>
    /\ UNCHANGED loopVars
    /\ UNCHANGED screenVars
    /\ UNCHANGED hookVars

\* handleStartKaraoke when fetchLyrics rejects
LyricsFailed ==
    /\ appState = "LOADING_LYRICS"
    /\ appError' = TRUE
    /\ appState' = "HOME"
    /\ details' = NoSong
    /\ fetch' = NoFetch
    /\ UNCHANGED << lyrics, songDetails, finalScore, history, homeVars,
                    deferEffects >>
    /\ UNCHANGED loopVars
    /\ UNCHANGED screenVars
    /\ UNCHANGED hookVars

\* a step of fetchLyrics alone: the App, the HomeScreen and the KaraokeScreen
\* are left as they are
FetchStep(f) ==
    /\ fetch' = f
    /\ UNCHANGED << appState, lyrics, songDetails, finalScore, appError,
                    history, details, homeVars, deferEffects >>
    /\ UNCHANGED loopVars
    /\ UNCHANGED screenVars
    /\ UNCHANGED hookVars

\* fetchLyrics calls fetchLyricsFromFallback
CallFallback(f) ==
    [f EXCEPT !.pc = "fallback", !.fallback = "pending",
              !.fallbackCalls = @ + 1]

\* a second passes while generateContent and the 12 s timer are pending
FetchSecond ==
    /\ fetch.pc = "primary"
    /\ fetch.elapsed < TimeoutSeconds
    /\ FetchStep([fetch EXCEPT !.elapsed = @ + 1])

\* generateContent resolves with response.text = text before the timer
\* fires: an empty text calls the fallback inside the try block, any other
\* text is returned trimmed
PrimaryResponded(text) ==
    /\ fetch.pc = "primary"
    /\ IF Len(text) = 0
       THEN FetchStep(CallFallback([fetch EXCEPT !.primary = "empty"]))
       ELSE FetchStep([fetch EXCEPT !.pc = "resolved", !.primary = "ok",
                                    !.text = TrimText(text)])

\* generateContent rejects before the timer fires: the catch block calls the
\* fallback
PrimaryFailed ==
    /\ fetch.pc = "primary"
    /\ FetchStep(CallFallback([fetch EXCEPT !.primary = "failed",
                                            !.inTry = FALSE]))

\* the timer of timeoutPromise fires first: Promise.race rejects and the
\* catch block calls the fallback
PrimaryTimeout ==
    /\ fetch.pc = "primary"
    /\ fetch.elapsed = TimeoutSeconds
    /\ FetchStep(CallFallback([fetch EXCEPT !.primary = "timeout",
                                            !.inTry = FALSE]))

\* fetchLyricsFromFallback settles for the response res of lyrics.ovh: its
\* LRC text is returned; what it throws inside the try block of fetchLyrics
\* is caught by the catch block of fetchLyrics, which calls the fallback,
\* and what it throws inside that catch block rejects fetchLyrics
FallbackResponded(res) ==
    /\ fetch.pc = "fallback"
    /\ IF ~FallbackThrows(res)
       THEN FetchStep([fetch EXCEPT
                         !.pc = "resolved", !.fallback = "ok",
                         !.text = FallbackLrc(FallbackLines(res.lyrics))])
       ELSE IF fetch.inTry
       THEN FetchStep(CallFallback([fetch EXCEPT !.inTry = FALSE]))
       ELSE FetchStep([fetch EXCEPT !.pc = "rejected", !.fallback = "failed"])

\* handleStartKaraoke resumes with the text fetchLyrics resolved with
FetchResolved ==
    /\ fetch.pc = "resolved"
    /\ LyricsFetched(fetch.text)

\* handleStartKaraoke resumes in its catch block when fetchLyrics rejected
FetchRejected ==
    /\ fetch.pc = "rejected"
    /\ LyricsFailed

\* handleSongEnd that adds the reported score to the stored one
HandleSongEndAdding(s) ==
    /\ finalScore' = finalScore + s
    /\ appState' = "SCORE"
    /\ UNCHANGED << lyrics, songDetails, appError, history, details, fetch,
                    homeVars,
                    deferEffects >>

\* handleSongEnd
HandleSongEnd(s) ==
    /\ finalScore' = s
    /\ appState' = "SCORE"
    /\ UNCHANGED << lyrics, songDetails, appError, history, details, fetch,
                    homeVars,
                    deferEffects >>

\* handlePlayAgain, from the ScoreScreen
HandlePlayAgain ==
    /\ appState = "SCORE"
    /\ ~mounted
    /\ songDetails' = NoSong
    /\ lyrics' = << >>
    /\ finalScore' = 0
    /\ appError' = FALSE
    /\ appState' = "HOME"
    /\ UNCHANGED << history, details, fetch,
                    homeVars, deferEffects >>
    /\ UNCHANGED loopVars
    /\ UNCHANGED screenVars
    /\ UNCHANGED hookVars

-----------------------------------------------------------------------------
(* HomeScreen: mounted while the App is in HOME or LOADING_LYRICS *)

loading == appState = "LOADING_LYRICS"

\* the disabled attribute of a search result and of a history entry
ResultDisabled(v) ==
    loading \/ isSearching \/ processingVideoId # NoVideo
            \/ v \in unplayableVideoIds
HistoryDisabled == loading \/ isSearching \/ processingVideoId # NoVideo
HistoryShown == history # << >> /\ searchResults = {} /\ ~isSearching

\* handleSubmit up to its await
HandleSubmit ==
    /\ appState = "HOME"
    /\ ~isSearching
    /\ isSearching' = TRUE
    /\ unplayableVideoIds' = {}
    /\ searchResults' = {}
    /\ UNCHANGED << processingVideoId, videoCheck >>
    /\ UNCHANGED << appState, lyrics, songDetails, finalScore, appError,
                    history, details, fetch, deferEffects >>
    /\ UNCHANGED loopVars
    /\ UNCHANGED screenVars
    /\ UNCHANGED hookVars

\* handleSubmit after searchVideos settled: results found, or none (also the
\* catch block, which leaves the results empty)
SearchDone(results) ==
    /\ appState \in {"HOME", "LOADING_LYRICS"}
    /\ isSearching
    /\ searchResults' = results
    /\ isSearching' = FALSE
    /\ UNCHANGED << processingVideoId, unplayableVideoIds, videoCheck >>
    /\ UNCHANGED << appState, lyrics, songDetails, finalScore, appError,
                    history, details, fetch, deferEffects >>
    /\ UNCHANGED loopVars
    /\ UNCHANGED screenVars
    /\ UNCHANGED hookVars

\* handleVideoSelect up to its first await
HandleVideoSelect(v) ==
    /\ appState = "HOME"
    /\ v \in searchResults
    /\ ~ResultDisabled(v)
    /\ processingVideoId' = v
    /\ videoCheck' = TRUE
    /\ UNCHANGED << isSearching, searchResults, unplayableVideoIds >>
    /\ UNCHANGED << appState, lyrics, songDetails, finalScore, appError,
                    history, details, fetch, deferEffects >>
    /\ UNCHANGED loopVars
    /\ UNCHANGED screenVars
    /\ UNCHANGED hookVars

\* handleVideoSelect after checkVideoEmbeddable and
\* extractSongDetailsFromTitle resolved: onStart(...)
VideoChecked(title) ==
    /\ videoCheck
    /\ videoCheck' = FALSE
    /\ UNCHANGED << isSearching, searchResults, processingVideoId,
                    unplayableVideoIds >>
    /\ HandleStartKaraoke(SongDetails(title, processingVideoId))

\* the catch block of handleVideoSelect; unplayable: the error was
\* VIDEO_UNPLAYABLE or VIDEO_CHECK_TIMEOUT
VideoRejected(unplayable) ==
    /\ videoCheck
    /\ videoCheck' = FALSE
    /\ processingVideoId' = NoVideo
    /\ unplayableVideoIds' = IF unplayable
                             THEN unplayableVideoIds \cup {processingVideoId}
                             ELSE unplayableVideoIds
    /\ UNCHANGED << isSearching, searchResults >>
    /\ UNCHANGED << appState, lyrics, songDetails, finalScore, appError,
                    history, details, fetch, deferEffects >>
    /\ UNCHANGED loopVars
    /\ UNCHANGED screenVars
    /\ UNCHANGED hookVars

\* handleHistoryClick: onStart(song), song the entry at index i - 1
HandleHistoryClick(i) ==
    /\ HistoryShown
    /\ ~HistoryDisabled
    /\ i \in 1..Len(history)
    /\ UNCHANGED homeVars
    /\ HandleStartKaraoke(history[i])

-----------------------------------------------------------------------------
(* The effects of the KaraokeScreen *)

\* the game-loop effect after a render: its dependencies isPlaying,
\* isMicReady, micVolume, userPitch are compared; when one changed the cleanup
\* cancels the requested frame and the effect requests one if isPlaying
RerunLoopEffect ==
    LET changed == << isPlaying', isMicReady', micVolume', userPitch' >>
                       # << isPlaying, isMicReady, micVolume, userPitch >>
    IN  /\ loopStale' = (loopStale \/ (changed /\ deferEffects))
        /\ loopFrame' = IF changed /\ ~deferEffects THEN isPlaying'
                        ELSE loopFrame

\* the deferred game-loop effect runs
RunLoopEffect ==
    /\ mounted
    /\ loopStale
    /\ loopStale' = FALSE
    /\ loopFrame' = isPlaying
    /\ UNCHANGED << mounted, songEnds >>
    /\ UNCHANGED appVars
    /\ UNCHANGED screenVars
    /\ UNCHANGED hookVars

\* the deferred render of the updates a gameTick frame has queued
RenderKaraokeScreen ==
    /\ InSession
    /\ scoreRef # score
    /\ scoreRef' = score
    /\ UNCHANGED appVars
    /\ UNCHANGED loopVars
    /\ UNCHANGED playerVars
    /\ UNCHANGED << isPlayerReady, isPlaying, currentTime, score, selectedMicId,
                    tomatoes, lyricsOffset, noSingingCounter, tomatoesThrown,
                    removeTimers,
                    silentRun, runTomatoes >>
    /\ UNCHANGED hookVars

\* the hook's cleanup that leaves every processAudio loop running
KeptQueue == frameQueue

\* the hook's cleanup: cancelAnimationFrame(animationFrameId.current)
CancelledQueue == SelectSeq(frameQueue, LAMBDA i : i # animationFrameId)

\* the hook's cleanup: the tracks of streamRef.current are stopped and
\* sourceNodeRef.current is disconnected
ReleasedRequests ==
    [i \in DOMAIN requests |->
        [requests[i] EXCEPT
            !.st = IF i = streamRef /\ @ = "live" THEN "stopped" ELSE @,
            !.node = IF i = sourceNodeRef THEN FALSE ELSE @]]

\* the KaraokeScreen unmounts: its state is discarded and the cleanups of its
\* effects run
Unmounting ==
    /\ mounted' = FALSE
    /\ loopFrame' = FALSE
    /\ loopStale' = FALSE
    /\ ScreenInitial
    /\ frameQueue' = CancelledQueue
    /\ requests' = ReleasedRequests
    /\ UNCHANGED << streamRef, sourceNodeRef, animationFrameId >>

\* the render that follows onSongEnd, when it comes after later frames
UnmountKaraokeScreen ==
    /\ mounted
    /\ appState # "KARAOKE"
    /\ Unmounting
    /\ UNCHANGED songEnds
    /\ UNCHANGED appVars

-----------------------------------------------------------------------------
(* KaraokeScreen *)

\* a render of the KaraokeScreen: scoreRef.current = score
RenderScreen == scoreRef' = score'

OnPlayerReady ==
    /\ InSession
    /\ ~isPlayerReady
    /\ isPlayerReady' = TRUE
    /\ UNCHANGED appVars
    /\ UNCHANGED loopVars
    /\ UNCHANGED playerVars
    /\ UNCHANGED << isPlaying, currentTime, score, selectedMicId, tomatoes,
                    lyricsOffset, noSingingCounter, tomatoesThrown,
                    removeTimers, silentRun,
                    runTomatoes >>
    /\ RenderScreen
    /\ UNCHANGED hookVars

\* handleTogglePlay, with the player's state-change event that answers it:
\* pauseVideo() when the player is PLAYING, playVideo() otherwise, which
\* starts an ended video again from its beginning
HandleTogglePlay ==
    /\ InSession
    /\ isPlayerReady
    /\ IF playerState = "PLAYING"
       THEN /\ playerState' = "PAUSED"
            /\ isPlaying' = FALSE
            /\ UNCHANGED playerTime
       ELSE /\ playerState' = "PLAYING"
            /\ isPlaying' = TRUE
            /\ playerTime' = IF playerState = "ENDED" THEN 0 ELSE playerTime
    /\ UNCHANGED appVars
    /\ UNCHANGED << isPlayerReady, currentTime, score, selectedMicId, tomatoes,
                    lyricsOffset, noSingingCounter, tomatoesThrown,
                    removeTimers, silentRun,
                    runTomatoes >>
    /\ RenderScreen
    /\ UNCHANGED hookVars
    /\ UNCHANGED << mounted, songEnds >>
    /\ RerunLoopEffect

\* the player stalls: onPlayerStateChange gets BUFFERING and sets nothing
PlayerBuffering ==
    /\ InSession
    /\ playerState = "PLAYING"
    /\ playerState' = "BUFFERING"
    /\ UNCHANGED playerTime
    /\ UNCHANGED appVars
    /\ UNCHANGED loopVars
    /\ UNCHANGED << isPlayerReady, isPlaying, currentTime, score, scoreRef,
                    selectedMicId, tomatoes, lyricsOffset, noSingingCounter,
                    tomatoesThrown, removeTimers, silentRun, runTomatoes >>
    /\ UNCHANGED hookVars

\* the stalled player plays again: onPlayerStateChange gets PLAYING
PlayerResumed ==
    /\ InSession
    /\ playerState = "BUFFERING"
    /\ playerState' = "PLAYING"
    /\ isPlaying' = TRUE
    /\ UNCHANGED playerTime
    /\ UNCHANGED appVars
    /\ UNCHANGED << isPlayerReady, currentTime, score, selectedMicId, tomatoes,
                    lyricsOffset, noSingingCounter, tomatoesThrown,
                    removeTimers, silentRun,
                    runTomatoes >>
    /\ RenderScreen
    /\ UNCHANGED hookVars
    /\ UNCHANGED << mounted, songEnds >>
    /\ RerunLoopEffect

\* the video reaches its end: onPlayerStateChange gets ENDED
PlayerEnded ==
    /\ InSession
    /\ playerState = "PLAYING"
    /\ playerState' = "ENDED"
    /\ isPlaying' = FALSE
    /\ UNCHANGED playerTime
    /\ UNCHANGED appVars
    /\ UNCHANGED << isPlayerReady, currentTime, score, selectedMicId, tomatoes,
                    lyricsOffset, noSingingCounter, tomatoesThrown,
                    removeTimers, silentRun,
                    runTomatoes >>
    /\ RenderScreen
    /\ UNCHANGED hookVars
    /\ UNCHANGED << mounted, songEnds >>
    /\ RerunLoopEffect

\* the scoring and tomato part of gameTick
Singing == micVolume > SingingThreshold

TickPoints(newTime) ==
    IF isMicReady /\ Singing
    THEN Award(Abs(userPitch - TargetPitch(newTime)))
    ELSE 0

\* TickCounter without the isMicReady gate
TickCounterUngated ==
    IF Singing THEN 0 ELSE noSingingCounter + 1

\* TickCounter that keeps the streak while singing
TickCounterNoReset ==
    IF ~isMicReady THEN noSingingCounter
    ELSE IF Singing THEN noSingingCounter
    ELSE noSingingCounter + 1

TickCounter ==
    IF ~isMicReady THEN noSingingCounter
    ELSE IF Singing THEN 0
    ELSE noSingingCounter + 1

\* TickThrows firing as soon as the streak reaches the limit
TickThrowsAtLimit == isMicReady /\ TickCounter >= SilenceLimit

TickThrows == isMicReady /\ TickCounter > SilenceLimit

\* history: the length of the current run of consecutive ticks that ran with
\* the microphone ready and not singing, counted from a streak of 0
\* (SilenceLimit + 1: the run has just thrown its tomato; -1: the streak was
\* not 0 when the run began)
RunAfterTick ==
    IF ~isMicReady THEN (IF noSingingCounter = 0 THEN 0 ELSE -1)
    ELSE IF Singing THEN 0
    ELSE IF silentRun = -1 THEN (IF TickThrows THEN 0 ELSE -1)
    ELSE IF silentRun = SilenceLimit + 1 THEN 1
    ELSE silentRun + 1

\* a requested gameTick frame fires with getCurrentTime() = newTime, in a
\* session explored up to maxTomatoes thrown tomatoes
GameTickUpTo(newTime, maxTomatoes) ==
    /\ mounted
    /\ loopFrame
    /\ newTime >= playerTime
    /\ playerState # "PLAYING" => newTime = playerTime
    /\ IF newTime >= SongDuration(lyrics)
       THEN /\ songEnds < MaxSongEnds
            /\ HandleSongEnd(scoreRef)
            /\ songEnds' = songEnds + 1
            /\ IF deferEffects
               THEN /\ currentTime' = newTime
                    /\ playerTime' = newTime
                    /\ loopFrame' = FALSE
                    /\ UNCHANGED << mounted, loopStale >>
                    /\ UNCHANGED << isPlayerReady, isPlaying, playerState,
                                    score, scoreRef, selectedMicId, tomatoes, lyricsOffset,
                                    noSingingCounter, tomatoesThrown,
                                    removeTimers,
                                    silentRun, runTomatoes >>
                    /\ UNCHANGED hookVars
               ELSE Unmounting
       ELSE /\ currentTime' = newTime
            /\ playerTime' = newTime
            /\ UNCHANGED playerState
            /\ scoreRef' = IF deferEffects THEN scoreRef
                           ELSE score + TickPoints(newTime)
            /\ score + TickPoints(newTime) <= MaxScore
            /\ TickThrows => tomatoesThrown < maxTomatoes
            /\ score' = score + TickPoints(newTime)
            /\ noSingingCounter' = IF TickThrows THEN 0 ELSE TickCounter
            /\ tomatoes' = IF TickThrows
                           THEN Append(tomatoes, tomatoesThrown + 1)
                           ELSE tomatoes
            /\ tomatoesThrown' = IF TickThrows THEN tomatoesThrown + 1
                                 ELSE tomatoesThrown
            /\ removeTimers' = IF TickThrows
                               THEN removeTimers
                                        \cup {Timer(tomatoesThrown + 1, 0)}
                               ELSE removeTimers
            /\ silentRun' = RunAfterTick
            /\ runTomatoes' = IF RunAfterTick <= 1 THEN 0
                              ELSE IF TickThrows THEN runTomatoes + 1
                              ELSE runTomatoes
            /\ UNCHANGED appVars
            /\ UNCHANGED loopVars
            /\ UNCHANGED << isPlayerReady, isPlaying, selectedMicId,
                            lyricsOffset >>
            /\ UNCHANGED hookVars

\* a requested gameTick frame fires with getCurrentTime() = newTime
GameTick(newTime) == GameTickUpTo(newTime, MaxTomatoes)

\* handleAdjustSync that also clears the silence streak
HandleAdjustSyncResetting(amount) ==
    /\ InSession
    /\ isPlayerReady
    /\ Abs(lyricsOffset + amount) <= MaxOffsetSteps * SyncStep
    /\ lyricsOffset' = lyricsOffset + amount
    /\ noSingingCounter' = 0
    /\ UNCHANGED appVars
    /\ UNCHANGED loopVars
    /\ UNCHANGED << isPlayerReady, isPlaying, currentTime, score,
                    selectedMicId, tomatoes, tomatoesThrown, removeTimers,
                    silentRun, runTomatoes >>
    /\ UNCHANGED playerVars
    /\ RenderScreen
    /\ UNCHANGED hookVars

HandleAdjustSync(amount) ==
    /\ InSession
    /\ isPlayerReady
    /\ Abs(lyricsOffset + amount) <= MaxOffsetSteps * SyncStep
    /\ lyricsOffset' = lyricsOffset + amount
    /\ UNCHANGED appVars
    /\ UNCHANGED loopVars
    /\ UNCHANGED << isPlayerReady, isPlaying, currentTime, score,
                    selectedMicId, tomatoes, noSingingCounter, tomatoesThrown,
                    removeTimers,
                    silentRun, runTomatoes >>
    /\ UNCHANGED playerVars
    /\ RenderScreen
    /\ UNCHANGED hookVars

\* removeTomato that also drops the tomatoes thrown after this one
RemoveTomatoAndNewer(id) ==
    /\ InSession
    /\ \E i \in 1..Len(tomatoes) : tomatoes[i] = id
    /\ tomatoes' = SelectSeq(tomatoes, LAMBDA t : t < id)
    /\ removeTimers' = {t \in removeTimers : t.id < id}
    /\ UNCHANGED appVars
    /\ UNCHANGED loopVars
    /\ UNCHANGED << isPlayerReady, isPlaying, currentTime, score,
                    selectedMicId, lyricsOffset, noSingingCounter,
                    tomatoesThrown, silentRun, runTomatoes >>
    /\ UNCHANGED playerVars
    /\ RenderScreen
    /\ UNCHANGED hookVars

\* removeTomato, called by the removeTimer of the Tomato with this id; the
\* Tomato unmounts and its cleanup clears its timers
RemoveTomato(id) ==
    /\ InSession
    /\ \E i \in 1..Len(tomatoes) : tomatoes[i] = id
    /\ tomatoes' = SelectSeq(tomatoes, LAMBDA t : t # id)
    /\ removeTimers' = {t \in removeTimers : t.id # id}
    /\ UNCHANGED appVars
    /\ UNCHANGED loopVars
    /\ UNCHANGED << isPlayerReady, isPlaying, currentTime, score,
                    selectedMicId, lyricsOffset, noSingingCounter,
                    tomatoesThrown, silentRun, runTomatoes >>
    /\ UNCHANGED playerVars
    /\ RenderScreen
    /\ UNCHANGED hookVars

\* the removeTimer of the Tomato with this id fires, 2000 ms after the
\* effect of the Tomato set it
RemoveTimerFires(id) ==
    /\ Timer(id, TomatoLifetime) \in removeTimers
    /\ RemoveTomato(id)

\* half the lifetime of a tomato passes on the clock of the timers; a timer
\* that is due fires before more time passes
TimePasses ==
    /\ InSession
    /\ removeTimers # {}
    /\ \A t \in removeTimers : t.elapsed < TomatoLifetime
    /\ removeTimers' = {Timer(t.id, t.elapsed + TomatoLifetime \div 2) :
                            t \in removeTimers}
    /\ UNCHANGED appVars
    /\ UNCHANGED loopVars
    /\ UNCHANGED << isPlayerReady, isPlaying, currentTime, score, scoreRef,
                    selectedMicId, tomatoes, lyricsOffset, noSingingCounter,
                    tomatoesThrown, silentRun, runTomatoes >>
    /\ UNCHANGED playerVars
    /\ UNCHANGED hookVars

-----------------------------------------------------------------------------
(* usePitchDetection *)

\* PublishedPitch that centres the pitch of a frame at the quiet threshold
\* only below it
PublishedPitchBelow(v, f) == IF v >= QuietThreshold THEN PitchValue(f) ELSE 5000

\* the sample processAudio publishes for a frame of volume v and frequency f
PublishedPitch(v, f) == IF v > QuietThreshold THEN PitchValue(f) ELSE 5000

\* SettingsModal picks another device: the hook's effect cleans up and
\* setupMic calls getUserMedia for device d
DeviceSelect(d) ==
    /\ InSession
    /\ d # selectedMicId
    /\ micPending < MaxPending
    /\ Len(requests) < MaxRequests
    /\ selectedMicId' = d
    /\ frameQueue' = CancelledQueue
    /\ requests' = Append(ReleasedRequests, Request(d))
    /\ UNCHANGED << streamRef, sourceNodeRef, animationFrameId >>
    /\ UNCHANGED publishedVars
    /\ UNCHANGED appVars
    /\ UNCHANGED loopVars
    /\ UNCHANGED << isPlayerReady, isPlaying, currentTime, score, tomatoes,
                    lyricsOffset, noSingingCounter, tomatoesThrown,
                    removeTimers, silentRun,
                    runTomatoes >>
    /\ UNCHANGED playerVars
    /\ RenderScreen

\* the setState calls of the hook are rendered by the KaraokeScreen of a
\* session in progress; once onSongEnd was called the next render unmounts it
Publish(ready, err, v, p, f) ==
    IF InSession
    THEN /\ isMicReady' = ready
         /\ micError' = err
         /\ micVolume' = v
         /\ userPitch' = p
         /\ fundamentalFreq' = f
         /\ scoreRef' = score
         /\ UNCHANGED << mounted, songEnds >>
         /\ UNCHANGED isPlaying
         /\ RerunLoopEffect
    ELSE /\ UNCHANGED publishedVars
         /\ UNCHANGED scoreRef
         /\ UNCHANGED loopVars
         /\ UNCHANGED isPlaying

\* the getUserMedia call of request i resolves: setupMic stores the stream,
\* connects a source node and goes on to its first processAudio()
MicResolve(i, v, f) ==
    /\ i \in DOMAIN requests
    /\ requests[i].st = "pending"
    /\ requests' = [requests EXCEPT ![i].st = "live", ![i].node = TRUE]
    /\ streamRef' = i
    /\ sourceNodeRef' = i
    /\ animationFrameId' = i
    /\ frameQueue' = Append(frameQueue, i)
    /\ Publish(TRUE, FALSE, v, PublishedPitch(v, f), f)
    /\ UNCHANGED appVars
    /\ UNCHANGED << isPlayerReady, currentTime, score, selectedMicId, tomatoes,
                    lyricsOffset, noSingingCounter, tomatoesThrown,
                    removeTimers, silentRun,
                    runTomatoes >>
    /\ UNCHANGED playerVars

\* MicFail that calls getUserMedia again for the same device
MicFailRetrying(i) ==
    /\ i \in DOMAIN requests
    /\ requests[i].st = "pending"
    /\ Len(requests) < MaxRequests
    /\ requests' = Append([requests EXCEPT ![i].st = "failed"],
                          Request(requests[i].dev))
    /\ UNCHANGED << streamRef, sourceNodeRef, animationFrameId, frameQueue >>
    /\ Publish(FALSE, TRUE, micVolume, userPitch, fundamentalFreq)
    /\ UNCHANGED appVars
    /\ UNCHANGED << isPlayerReady, currentTime, score, selectedMicId, tomatoes,
                    lyricsOffset, noSingingCounter, tomatoesThrown,
                    removeTimers, silentRun,
                    runTomatoes >>
    /\ UNCHANGED playerVars

\* the getUserMedia call of request i rejects: the catch block of setupMic
MicFail(i) ==
    /\ i \in DOMAIN requests
    /\ requests[i].st = "pending"
    /\ requests' = [requests EXCEPT ![i].st = "failed"]
    /\ UNCHANGED << streamRef, sourceNodeRef, animationFrameId, frameQueue >>
    /\ Publish(FALSE, TRUE, micVolume, userPitch, fundamentalFreq)
    /\ UNCHANGED appVars
    /\ UNCHANGED << isPlayerReady, currentTime, score, selectedMicId, tomatoes,
                    lyricsOffset, noSingingCounter, tomatoesThrown,
                    removeTimers, silentRun,
                    runTomatoes >>
    /\ UNCHANGED playerVars

\* an animation frame: the requested processAudio callbacks run in the order
\* they were requested, each stores its new frame id and publishes; the
\* values of the last one are rendered
ProcessAudio(v, f) ==
    /\ frameQueue # << >>
    /\ animationFrameId' = frameQueue[Len(frameQueue)]
    /\ UNCHANGED << requests, streamRef, sourceNodeRef, frameQueue >>
    /\ Publish(isMicReady, micError, v, PublishedPitch(v, f), f)
    /\ UNCHANGED appVars
    /\ UNCHANGED << isPlayerReady, currentTime, score, selectedMicId, tomatoes,
                    lyricsOffset, noSingingCounter, tomatoesThrown,
                    removeTimers, silentRun,
                    runTomatoes >>
    /\ UNCHANGED playerVars

-----------------------------------------------------------------------------
(* The whole application; the device is switched once the request in flight
   has settled *)

SettledDeviceSelect(d) == micPending = 0 /\ DeviceSelect(d)

Next ==
    \/ HandleSubmit
    \/ \E r \in SUBSET Videos : SearchDone(r)
    \/ \E v \in Videos : HandleVideoSelect(v)
    \/ \E t \in Titles : VideoChecked(t)
    \/ \E u \in BOOLEAN : VideoRejected(u)
    \/ \E i \in 1..MAX_HISTORY_SIZE : HandleHistoryClick(i)
    \/ \E l \in SessionLyrics \cup {<< >>} : LyricsLoaded(l)
    \/ LyricsFailed
    \/ HandlePlayAgain
    \/ OnPlayerReady
    \/ HandleTogglePlay
    \/ \E t \in GameTimes : GameTick(t)
    \/ \E a \in {-SyncStep, SyncStep} : HandleAdjustSync(a)
    \/ \E id \in 1..MaxTomatoes : RemoveTomato(id)
    \/ \E d \in Devices : SettledDeviceSelect(d)
    \/ \E i \in 1..MaxRequests, fr \in GameFrames : MicResolve(i, fr.v, fr.f)
    \/ \E i \in 1..MaxRequests : MicFail(i)
    \/ \E fr \in GameFrames : ProcessAudio(fr.v, fr.f)

Spec == Init /\ [][Next]_vars

-----------------------------------------------------------------------------
(* The scoring of gameTick on finer frames and playback times; the silence
   streak is explored up to MaxStreak *)

ScoringTick(t) == GameTick(t) /\ noSingingCounter' <= MaxStreak

NextScoring ==
    \/ HandleSubmit
    \/ \E r \in SUBSET Videos : SearchDone(r)
    \/ \E v \in Videos : HandleVideoSelect(v)
    \/ \E t \in Titles : VideoChecked(t)
    \/ \E l \in SessionLyrics : LyricsLoaded(l)
    \/ OnPlayerReady
    \/ HandleTogglePlay
    \/ \E t \in FineTimes : ScoringTick(t)
    \/ \E d \in Devices : SettledDeviceSelect(d)
    \/ \E i \in 1..MaxRequests, fr \in FineFrames : MicResolve(i, fr.v, fr.f)
    \/ \E i \in 1..MaxRequests : MicFail(i)
    \/ \E fr \in FineFrames : ProcessAudio(fr.v, fr.f)

SpecScoring == Init /\ [][NextScoring]_vars

-----------------------------------------------------------------------------
(* The lyric timeline over every sequence of TimelineLyrics, and the empty
   sequence *)

NextTimeline ==
    \/ HandleSubmit
    \/ \E r \in SUBSET Videos : SearchDone(r)
    \/ \E v \in Videos : HandleVideoSelect(v)
    \/ \E t \in Titles : VideoChecked(t)
    \/ \E l \in TimelineLyrics \cup SessionLyrics \cup {<< >>} : LyricsLoaded(l)
    \/ OnPlayerReady
    \/ HandleTogglePlay
    \/ \E t \in TimelineTimes : GameTick(t)
    \/ \E a \in {-SyncStep, SyncStep} : HandleAdjustSync(a)

SpecTimeline == Init /\ [][NextTimeline]_vars

-----------------------------------------------------------------------------
(* The races of a session: passive effects may run after later animation
   frames, the device is switched between MicDevices while requests are in
   flight; the silence streak is explored up to MaxStreak *)

InitConcurrent == InitApp /\ deferEffects \in BOOLEAN

ConcurrentTimes == {0, 120}
ConcurrentFrames == {Frame(0, 0), Frame(60, 280)}

NextConcurrent ==
    \/ HandleSubmit
    \/ \E r \in SUBSET Videos : SearchDone(r)
    \/ \E v \in Videos : HandleVideoSelect(v)
    \/ \E t \in Titles : VideoChecked(t)
    \/ \E l \in SessionLyrics : LyricsLoaded(l)
    \/ HandlePlayAgain
    \/ OnPlayerReady
    \/ HandleTogglePlay
    \/ \E t \in ConcurrentTimes : ScoringTick(t)
    \/ RunLoopEffect
    \/ RenderKaraokeScreen
    \/ UnmountKaraokeScreen
    \/ \E d \in MicDevices : DeviceSelect(d)
    \/ \E i \in 1..MaxRequests, fr \in ConcurrentFrames :
          MicResolve(i, fr.v, fr.f)
    \/ \E i \in 1..MaxRequests : MicFail(i)
    \/ \E fr \in ConcurrentFrames : ProcessAudio(fr.v, fr.f)

SpecConcurrent == InitConcurrent /\ [][NextConcurrent]_vars

-----------------------------------------------------------------------------
(* The analysis of processAudio: the frames are computed from byte spectra
   and time-domain buffers *)

NextAudio ==
    \/ HandleSubmit
    \/ \E r \in SUBSET Videos : SearchDone(r)
    \/ \E v \in Videos : HandleVideoSelect(v)
    \/ \E t \in Titles : VideoChecked(t)
    \/ \E l \in SessionLyrics : LyricsLoaded(l)
    \/ OnPlayerReady
    \/ HandleTogglePlay
    \/ \E t \in GameTimes : ScoringTick(t)
    \/ \E i \in 1..MaxRequests, fr \in AnalysedFrames :
          MicResolve(i, fr.v, fr.f)
    \/ \E fr \in AnalysedFrames : ProcessAudio(fr.v, fr.f)

SpecAudio == Init /\ [][NextAudio]_vars

-----------------------------------------------------------------------------
(* The tomatoes of a session on the clock of their removeTimers; up to
   MaxShower tomatoes are thrown *)

TomatoFrames == {Frame(0, 0), Frame(600, 300)}

NextTomato ==
    \/ HandleSubmit
    \/ \E r \in SUBSET Videos : SearchDone(r)
    \/ \E v \in Videos : HandleVideoSelect(v)
    \/ \E t \in Titles : VideoChecked(t)
    \/ \E l \in SessionLyrics : LyricsLoaded(l)
    \/ OnPlayerReady
    \/ HandleTogglePlay
    \/ \E t \in {0} : GameTickUpTo(t, MaxShower)
    \/ \E i \in 1..MaxRequests, fr \in TomatoFrames : MicResolve(i, fr.v, fr.f)
    \/ \E fr \in TomatoFrames : ProcessAudio(fr.v, fr.f)
    \/ TimePasses
    \/ \E id \in 1..MaxShower : RemoveTimerFires(id)

SpecTomato == Init /\ [][NextTomato]_vars

\* the clock of the timers keeps running and a due timer fires
SpecTomatoFair ==
    /\ SpecTomato
    /\ WF_vars(TimePasses)
    /\ WF_vars(\E id \in 1..MaxShower : RemoveTimerFires(id))

-----------------------------------------------------------------------------
(* fetchLyrics with the 12 s timer and the lyrics.ovh fallback, step by step *)

PrimaryTexts == { << >>, << " " >>,
                  Stamp("0", << "0", "0" >>) \o << "a", "\n" >>,
                  << "a" >> }
FallbackResponses ==
    [ok : BOOLEAN, lyrics : { << >>, << " ", "\n" >>, << "a" >>,
                              << "a", " ", "\n", "\n", "b" >> }]

NextFetch ==
    \/ HandleSubmit
    \/ \E r \in SUBSET Videos : SearchDone(r)
    \/ \E v \in Videos : HandleVideoSelect(v)
    \/ \E t \in Titles : VideoChecked(t)
    \/ FetchSecond
    \/ \E t \in PrimaryTexts : PrimaryResponded(t)
    \/ PrimaryFailed
    \/ PrimaryTimeout
    \/ \E res \in FallbackResponses : FallbackResponded(res)
    \/ FetchResolved
    \/ FetchRejected
    \/ OnPlayerReady
    \/ HandleTogglePlay
    \/ \E t \in GameTimes : GameTick(t)
    \/ HandlePlayAgain

SpecFetch == Init /\ [][NextFetch]_vars

-----------------------------------------------------------------------------
(* The lyrics of a session parsed from LrcTexts *)

NextLyrics ==
    \/ HandleSubmit
    \/ \E r \in SUBSET Videos : SearchDone(r)
    \/ \E v \in Videos : HandleVideoSelect(v)
    \/ \E t \in Titles : VideoChecked(t)
    \/ \E t \in LrcTexts : LyricsFetched(t)
    \/ OnPlayerReady
    \/ HandleTogglePlay
    \/ \E t \in GameTimes : GameTick(t)
    \/ HandlePlayAgain

SpecLyrics == Init /\ [][NextLyrics]_vars

-----------------------------------------------------------------------------
(* The player's own state changes during a session: it stalls and resumes,
   and the video reaches its end *)

NextPlayer ==
    \/ HandleSubmit
    \/ \E r \in SUBSET Videos : SearchDone(r)
    \/ \E v \in Videos : HandleVideoSelect(v)
    \/ \E t \in Titles : VideoChecked(t)
    \/ \E l \in SessionLyrics : LyricsLoaded(l)
    \/ HandlePlayAgain
    \/ OnPlayerReady
    \/ HandleTogglePlay
    \/ PlayerBuffering
    \/ PlayerResumed
    \/ PlayerEnded
    \/ \E t \in GameTimes : ScoringTick(t)
    \/ \E i \in 1..MaxRequests, fr \in GameFrames : MicResolve(i, fr.v, fr.f)
    \/ \E fr \in GameFrames : ProcessAudio(fr.v, fr.f)

SpecPlayer == Init /\ [][NextPlayer]_vars

\* a frame of the game loop fires with the playback time at the song's end
EndTick ==
    \E t \in GameTimes : t >= SongDuration(lyrics) /\ ScoringTick(t)

\* what happens without the user: a player that keeps playing gets to any
\* position of the video, where it plays the game loop's frames fire, and a
\* stalled player resumes
SpecPlayerFair ==
    /\ SpecPlayer
    /\ SF_vars(EndTick)
    /\ WF_vars(PlayerResumed)

-----------------------------------------------------------------------------
(* The pitch published for the frames of PitchFrames *)

NextPitch ==
    \/ HandleSubmit
    \/ \E r \in SUBSET Videos : SearchDone(r)
    \/ \E v \in Videos : HandleVideoSelect(v)
    \/ \E t \in Titles : VideoChecked(t)
    \/ \E l \in SessionLyrics : LyricsLoaded(l)
    \/ OnPlayerReady
    \/ HandleTogglePlay
    \/ \E t \in GameTimes : ScoringTick(t)
    \/ \E i \in 1..MaxRequests, fr \in PitchFrames : MicResolve(i, fr.v, fr.f)
    \/ \E fr \in PitchFrames : ProcessAudio(fr.v, fr.f)

SpecPitch == Init /\ [][NextPitch]_vars

-----------------------------------------------------------------------------
(* The song history over sessions of the videos of HistoryVideos, started
   from search results and from history entries *)

NextHistory ==
    \/ HandleSubmit
    \/ SearchDone(HistoryVideos)
    \/ \E v \in HistoryVideos : HandleVideoSelect(v)
    \/ \E t \in TitlesOf(processingVideoId) : VideoChecked(t)
    \/ \E i \in 1..MAX_HISTORY_SIZE : HandleHistoryClick(i)
    \/ \E l \in SessionLyrics \cup {<< >>} : LyricsLoaded(l)
    \/ LyricsFailed
    \/ OnPlayerReady
    \/ HandleTogglePlay
    \/ \E t \in {SongDuration(lyrics)} : GameTick(t)
    \/ HandlePlayAgain

SpecHistory == Init /\ [][NextHistory]_vars

-----------------------------------------------------------------------------
(* Properties *)

\* a step of gameTick: one that calls onSongEnd, one that gets past the
\* end-of-song test, and either
EndTickStep == mounted /\ loopFrame /\ songEnds' = songEnds + 1
ScoringTickStep == currentTime' < SongDuration(lyrics) /\ GameTick(currentTime')
TickStep == EndTickStep \/ ScoringTickStep

\* the points the scoring rule gives the frame a tick reads
ExpectedPoints ==
    LET diff == Abs(userPitch - TargetPitch(currentTime'))
    IN  IF diff < 1000 THEN 5 ELSE IF diff < 2000 THEN 2 ELSE 0

\* C1 as stated: every game tick with loudness >= 0.05 raises the score by
\* exactly 5 (diff < 10), 2 (10 <= diff < 20) or 0 (diff >= 20).
C1_EveryLoudTickScores ==
    [][(TickStep /\ micVolume >= 50) => score' = score + ExpectedPoints]_vars

\* C1 amended: every game tick before the end of the song that runs with the
\* microphone ready and loudness > 0.05 raises the score by exactly 5
\* (diff < 10), 2 (10 <= diff < 20) or 0 (diff >= 20).
C1_ReadyLoudTickScores ==
    [][(ScoringTickStep /\ isMicReady /\ micVolume > 50)
          => score' = score + ExpectedPoints]_vars

\* two ticks at the boundary diff = 10 have each scored 2
C1_Witness ==
    /\ appState = "KARAOKE"
    /\ isMicReady
    /\ micVolume > 50
    /\ Abs(userPitch - TargetPitch(currentTime)) = 1000
    /\ score = 4

\* C2 as stated: every game tick with loudness < 0.05 leaves the score and
\* adds exactly 1 to the silence streak, whatever the microphone readiness.
C2_EveryQuietTickCounts ==
    [][(TickStep /\ micVolume < 50)
          => (score' <= score /\ noSingingCounter' = noSingingCounter + 1)]_vars

\* C2 amended: a game tick before the end of the song with loudness < 0.05
\* leaves the score; with the microphone ready it adds exactly 1 to the
\* silence streak, except that the tick that takes the streak past 120 sets
\* it to 0; with the microphone not ready it leaves the streak.
C2_QuietTickCounts ==
    [][(ScoringTickStep /\ micVolume < 50)
          => /\ score' = score
             /\ noSingingCounter' =
                   IF ~isMicReady THEN noSingingCounter
                   ELSE IF noSingingCounter + 1 > 120 THEN 0
                   ELSE noSingingCounter + 1]_vars

\* the streak has been counted up to 120 by quiet ticks, after a scoring tick
C2_Witness ==
    /\ appState = "KARAOKE"
    /\ isMicReady
    /\ micVolume < 50
    /\ noSingingCounter = 120
    /\ score = 5

\* C3 as stated: after exactly 120 consecutive low-loudness ticks from a
\* streak of 0, exactly one tomato has fired and the streak is 0 again.
C3_TomatoOnTick120 ==
    silentRun = 120 => (runTomatoes = 1 /\ noSingingCounter = 0)

\* C3 amended: during the first 120 consecutive low-loudness ticks (microphone
\* ready) from a streak of 0 no tomato fires and the streak equals the number
\* of ticks; the 121st fires exactly one tomato and sets the streak to 0.
C3_TomatoOnTick121 ==
    /\ silentRun \in 0..120 => (runTomatoes = 0 /\ noSingingCounter = silentRun)
    /\ silentRun = 121 => (runTomatoes = 1 /\ noSingingCounter = 0
                            /\ tomatoesThrown >= 1)

\* the 121st tick of a silent run has just run
C3_Witness == appState = "KARAOKE" /\ silentRun = 121 /\ Len(tomatoes) = 1

\* C4 as stated: the streak is 0 right after any tick with loudness >= 0.05,
\* so a tomato only fires after an uninterrupted run of low-loudness ticks.
C4_LoudTickResets ==
    [][/\ (TickStep /\ micVolume >= 50) => noSingingCounter' = 0
       /\ (TickStep /\ tomatoesThrown' > tomatoesThrown) => silentRun' = 121]_vars

\* C4 amended: the streak is 0 right after any tick before the end of the
\* song that runs with the microphone ready and loudness > 0.05; a tomato
\* fires only on a tick that runs with the microphone ready, loudness <= 0.05
\* and a streak of 120, that is after 121 such ticks with no ready loud tick
\* among them.
C4_ReadyLoudTickResets ==
    [][/\ (ScoringTickStep /\ isMicReady /\ micVolume > 50)
            => noSingingCounter' = 0
       /\ (tomatoesThrown' > tomatoesThrown)
            => /\ ScoringTickStep
               /\ isMicReady
               /\ micVolume <= 50
               /\ noSingingCounter = 120
               /\ noSingingCounter' = 0]_vars

\* a tomato has fired, and a later loud tick has scored and left the streak 0
C4_Witness ==
    /\ appState = "KARAOKE"
    /\ isMicReady
    /\ micVolume > 50
    /\ tomatoesThrown = 1
    /\ score = 5
    /\ noSingingCounter = 0
    /\ silentRun = 0

\* C5: within a session the score is a non-negative integer that never
\* decreases, whatever the interleaving of ticks, play/pause, offset
\* adjustments, device switches and tomato removals.
C5_ScoreMonotonic ==
    /\ [](score \in Nat)
    /\ [][(mounted /\ mounted') => score' >= score]_vars

\* a session that has scored, thrown and removed a tomato, moved the offset,
\* switched the device and paused
C5_Witness ==
    /\ appState = "KARAOKE"
    /\ score = 5
    /\ tomatoesThrown = 1
    /\ tomatoes = << >>
    /\ lyricsOffset # 0
    /\ selectedMicId # NoDevice
    /\ isPlayerReady
    /\ ~isPlaying

\* clamp(floor(score / 3000), 0, 5)
Rating(s) == Max(0, Min(5, s \div 3000))

\* C6 as stated: the stars shown in the game and on the score screen are both
\* clamp(floor(score / 3000), 0, 5).
C6_StarsAreRating ==
    /\ appState = "KARAOKE" => GameLitStars(score) = Rating(score)
    /\ appState = "SCORE" => ScoreScreenLitStars(finalScore) = Rating(finalScore)

\* the effective time the timeline matches lines against, and the lines
\* whose interval contains a time
EffectiveTime == currentTime + lyricsOffset
LinesContaining(T) ==
    {i \in 1..Len(lyrics) : lyrics[i].startTime <= T /\ T < lyrics[i].endTime}
FirstOf(S) == CHOOSE i \in S : \A j \in S : i <= j

\* C7: the active line is the first line in sequence order whose interval
\* [startTime, endTime) contains the effective time, and there is none when
\* no interval contains it.
C7_ActiveIsFirstContaining ==
    LET C == LinesContaining(EffectiveTime)
    IN  IF C = {}
        THEN activeLineIndex = -1 /\ activeLine = None
        ELSE activeLineIndex = FirstOf(C) - 1 /\ activeLine = lyrics[FirstOf(C)]

\* two overlapping lines contain the effective time
C7_Witness ==
    /\ appState = "KARAOKE"
    /\ Cardinality(LinesContaining(EffectiveTime)) = 2
    /\ activeLine = lyrics[1]

\* C8: when line i is active the next line reported is line i + 1, and none
\* when line i is the last line.
C8_NextFollowsActive ==
    LET C == LinesContaining(EffectiveTime)
    IN  C # {} =>
            futureLine = IF FirstOf(C) < Len(lyrics)
                         THEN lyrics[FirstOf(C) + 1]
                         ELSE None

\* the last of two lines is active and no next line is reported
C8_Witness ==
    /\ appState = "KARAOKE"
    /\ Len(lyrics) = 2
    /\ activeLine = lyrics[2]
    /\ futureLine = None

\* C9 as stated: when no interval contains the effective time, neither an
\* active line nor a next line is reported.
C9_NoneWhenNoLineContains ==
    LinesContaining(EffectiveTime) = {}
        => (activeLine = None /\ futureLine = None)

C20_NoSessionWithoutLyrics ==
    /\ []((appState = "KARAOKE" \/ mounted)
            => (Len(lyrics) > 0 /\ songDetails # NoSong))
    /\ [][LyricsLoaded(<< >>)
            => (appError' /\ appState' = "HOME" /\ ~mounted')]_vars

\* a response with zero lines has put the error message on the HOME screen
C20_Witness ==
    /\ appState = "HOME"
    /\ appError
    /\ lyrics = << >>
    /\ ~mounted

\* C12 as stated: in every session onSongEnd is called exactly once, by the
\* first tick whose playback time reaches the song duration, and after it no
\* gameTick frame is requested, whatever microphone updates re-run the
\* game-loop effect.
C12_SongEndsOnce ==
    /\ songEnds <= 1
    /\ songEnds >= 1 => ~loopFrame
    /\ (mounted /\ currentTime >= SongDuration(lyrics)) => songEnds >= 1

\* C13: once onSongEnd has been called, no later event of the session
\* changes its score or its silence streak or throws a tomato, and the score
\* it reported stays as reported until the player leaves the score screen.
C13_EndedSessionIsFrozen ==
    [][/\ (songEnds >= 1 /\ mounted /\ mounted')
            => /\ score' = score
               /\ noSingingCounter' = noSingingCounter
               /\ tomatoesThrown' = tomatoesThrown
       /\ (appState = "SCORE" /\ appState' = "SCORE")
            => finalScore' = finalScore]_vars

\* a gameTick frame has fired after the one that ended the session
C13_Witness ==
    /\ songEnds = 2
    /\ appState = "SCORE"
    /\ finalScore = 5

\* the request of the selected device, and the requests of deselected ones
CurrentRequest == Len(requests)
AcquisitionPending ==
    mounted /\ requests # << >> /\ requests[CurrentRequest].st = "pending"
Live(i) == i \in DOMAIN requests /\ requests[i].st = "live"
Looping(i) == \E k \in 1..Len(frameQueue) : frameQueue[k] = i

\* C14 as stated: while the acquisition for the selected device is pending
\* (the initial one or one started by a device switch) the hook reports
\* not-ready, and no game tick changes the score or the silence streak or
\* throws a tomato.
C14_PendingIsNotReady ==
    /\ [](AcquisitionPending => ~isMicReady)
    /\ [][(AcquisitionPending /\ TickStep)
            => /\ score' = score
               /\ noSingingCounter' = noSingingCounter
               /\ tomatoesThrown' = tomatoesThrown]_vars

\* C15 as stated: once the device has been switched, the stream of every
\* earlier request has its tracks stopped and its source node disconnected,
\* also when that request resolves after the switch.
C15_PreviousStreamsReleased ==
    mounted => \A i \in 1..(Len(requests) - 1) :
                  requests[i].st # "live" /\ ~requests[i].node

\* a step in which processAudio callbacks publish, and the first
\* processAudio() of a request that resolves
AudioFrameStep == \E fr \in ConcurrentFrames : ProcessAudio(fr.v, fr.f)
ResolveStep(i) == \E fr \in ConcurrentFrames : MicResolve(i, fr.v, fr.f)

\* C16 as stated: after a device switch, until the stream of the new device
\* has published its first sample, no processAudio of a stream of an earlier
\* request publishes.
C16_NoStaleSample ==
    [][AcquisitionPending
          => /\ AudioFrameStep => frameQueue = << >>
             /\ \A i \in 1..(Len(requests) - 1) : ~ResolveStep(i)]_vars

\* C17: every teardown (device change or unmount) cancels the processAudio
\* loop together with stopping the stream and disconnecting the source node
\* it holds, so no processAudio callback is left requested for a stream
\* whose tracks have been stopped.
C17_NoLoopOnReleasedStream ==
    \A k \in 1..Len(frameQueue) : requests[frameQueue[k]].st = "live"

\* a device change has torn down a stream that had published, and the screen
\* has unmounted with the next one running
C17_Witness ==
    /\ ~mounted
    /\ Len(requests) = 2
    /\ requests[1].st = "stopped"
    /\ requests[2].st = "stopped"
    /\ frameQueue = << >>

\* the steps the browser and React schedule by themselves: passive effects
\* and cleanups are run, and requested animation frames fire
SpecConcurrentFair ==
    /\ SpecConcurrent
    /\ WF_vars(RunLoopEffect)
    /\ WF_vars(UnmountKaraokeScreen)
    /\ WF_vars(\E fr \in ConcurrentFrames : ProcessAudio(fr.v, fr.f))

\* C18 as stated: every stream that was acquired is eventually stopped once
\* its device has been deselected or the screen has unmounted, also a stream
\* whose getUserMedia resolves after the teardown.
C18_StreamsEventuallyStopped ==
    \A i \in 1..MaxRequests :
        (Live(i) /\ (i < CurrentRequest \/ ~mounted)) ~> ~Live(i)

\* C19: when getUserMedia fails the hook reports the error and not-ready,
\* starts no processAudio loop and calls getUserMedia again only when the
\* device identifier changes (or a new screen mounts).
C19_FailureIsNotRetried ==
    [][/\ \A i \in 1..MaxRequests :
             MicFail(i) => /\ InSession => (micError' /\ ~isMicReady')
                           /\ frameQueue' = frameQueue
                           /\ Len(requests') = Len(requests)
                           /\ micPending' = micPending - 1
       /\ (micPending' > micPending \/ Len(requests') > Len(requests))
             => (selectedMicId' # selectedMicId \/ (mounted' /\ ~mounted))]_vars

\* the request of the selected device has failed and nothing is in flight
C19_Witness ==
    /\ InSession
    /\ micError
    /\ ~isMicReady
    /\ requests[CurrentRequest].st = "failed"
    /\ micPending = 0
    /\ frameQueue = << >>

\* C21 as stated: once a session start has failed and the app is back in
\* HOME with nothing of the HomeScreen in flight, a fresh attempt is possible:
\* the search results that are playable, and the history entries when they
\* are shown, are enabled.
C21_FreshAttemptEnabled ==
    (appState = "HOME" /\ appError /\ ~videoCheck /\ ~isSearching)
        => /\ \A v \in searchResults \ unplayableVideoIds : ~ResultDisabled(v)
           /\ HistoryShown => ~HistoryDisabled

\* C22 as stated: the loudness published for a frame lies in [0, 1].
C22_LoudnessInUnitInterval == micVolume \in 0..1000

\* the largest correlation sum of a buffer over the searched lags
Lags(buffer) == {o \in MinLag..Len(buffer) : 2 * o < Len(buffer)}
MaxCorrelation(buffer) ==
    CHOOSE m \in {CorrelationFrom(buffer, o, 0) : o \in Lags(buffer)} :
        \A o \in Lags(buffer) : CorrelationFrom(buffer, o, 0) <= m

\* what C23 says findFundamentalFreq returns for a buffer: 0 when the
\* maximum correlation is below 0.1, otherwise sampleRate / bestLag for a lag
\* attaining the maximum
ClaimedFrequencies(b) ==
    LET m == MaxCorrelation(b)
    IN  IF 2 * m < CorrelationThreshold * Len(b) THEN {0}
        ELSE {SampleRate \div o :
                o \in {l \in Lags(b) : CorrelationFrom(b, l, 0) = m}}
ClaimedBuffers ==
    {[f |-> ab.f, claimed |-> ClaimedFrequencies(ab.buffer)] :
        ab \in AnalysedBuffers}

\* C23 as stated: findFundamentalFreq returns 0 exactly when the maximum
\* correlation over the searched lags is below 0.1, and otherwise returns
\* sampleRate / bestLag for a lag attaining the maximum.
C23_PitchIffCorrelationReachesThreshold ==
    [][\A cb \in ClaimedBuffers :
          (InSession /\ \E v \in LoudnessValues : ProcessAudio(v, cb.f))
              => fundamentalFreq' \in cb.claimed]_vars

\* C24 as stated: every lyric sequence parseLRC produces is sorted by
\* startTime and every line has endTime >= startTime, whatever the order of
\* the timestamps in the LRC text.
C24_ParsedLyricsSortedAndOrdered ==
    /\ \A i \in 1..(Len(lyrics) - 1) :
            lyrics[i].startTime <= lyrics[i + 1].startTime
    /\ \A i \in 1..Len(lyrics) : lyrics[i].endTime >= lyrics[i].startTime

\* a line that begins with [mm:ss.xx] or [mm:ss.xxx], d standing for a digit
StampPatterns ==
    { << "[", "d", "d", ":", "d", "d", ".", "d", "d", "]" >>,
      << "[", "d", "d", ":", "d", "d", ".", "d", "d", "d", "]" >> }
BeginsWith(line, pattern) ==
    /\ Len(line) >= Len(pattern)
    /\ \A i \in 1..Len(pattern) :
            IF pattern[i] = "d" THEN IsDigit(line[i]) ELSE line[i] = pattern[i]
WellFormed(line) == \E pattern \in StampPatterns : BeginsWith(line, pattern)

\* what C25 says parseLRC returns for a text: the start time and the text of
\* each well-formed line, one entry per such line, in input order
ClaimedLine(line) ==
    LET pattern == CHOOSE pt \in StampPatterns : BeginsWith(line, pt)
        rest == SubSeq(line, Len(pattern) + 1, Len(line))
    IN  [text      |-> Str(SelectSeq(rest, LAMBDA c : c # " ")),
         startTime |-> 6000 * Digit[line[2]] + 600 * Digit[line[3]]
                        + 100 * Digit[line[5]] + 10 * Digit[line[6]]
                        + Digit[line[8]]]
ClaimedLines(lrcText) ==
    LET all == Split(lrcText)
        good == {i \in 1..Len(all) : WellFormed(all[i])}
    IN  [r \in 1..Cardinality(good) |->
            ClaimedLine(all[CHOOSE i \in good :
                                Cardinality({j \in good : j <= i}) = r])]
ClaimedLyrics ==
    {[parsed |-> ParseLRC(t), claimed |-> ClaimedLines(t)] : t \in LrcTexts}

\* C25: parseLRC drops each line that does not begin with a well-formed
\* timestamp and returns exactly one LyricLine per well-formed line, in input
\* order: a text without a well-formed line starts no session, and otherwise
\* the session's lyrics are the well-formed lines, one entry each, in order.
C25_OneLyricLinePerWellFormedLine ==
    [][\A c \in ClaimedLyrics :
          LyricsLoaded(c.parsed) =>
              IF Len(c.claimed) = 0 THEN appState' = "HOME"
              ELSE /\ appState' = "KARAOKE"
                   /\ Len(lyrics') = Len(c.claimed)
                   /\ \A k \in 1..Len(c.claimed) :
                        /\ lyrics'[k].text = c.claimed[k].text
                        /\ lyrics'[k].startTime = c.claimed[k].startTime]_vars

\* C25 witness: a session whose LRC text had a line without a timestamp
\* between two well-formed lines; both well-formed lines are its lyrics
C25_Witness ==
    /\ appState = "KARAOKE"
    /\ lyrics = ParseLRC(Join(<< Stamp("0", << "0", "0" >>) \o << "a" >>,
                                 << "e" >>,
                                 Stamp("5", << "0", "0" >>) \o << " ", "b", " " >> >>))
    /\ Len(lyrics) = 2
    /\ lyrics[2].text = "b"

\* C29: a gameTick that scores a frame for which no pitch was detected
\* (frequencyHz = 0) never increases the score, whatever the frame's loudness
\* and whatever the playback time.
C29_NoPitchFrameNeverScores ==
    [][(ScoringTickStep /\ fundamentalFreq = 0) => score' = score]_vars

\* C29 witness: a tick has scored a loud frame without pitch at 3.0 s, where
\* the target pitch is within a point of its minimum of 20, after points had
\* been awarded to an earlier frame
C29_Witness ==
    /\ InSession
    /\ isMicReady
    /\ fundamentalFreq = 0
    /\ micVolume > SingingThreshold
    /\ userPitch = 0
    /\ currentTime = 30
    /\ noSingingCounter = 0
    /\ score > 0

\* C30: the sync buttons are enabled throughout playback; an adjustment
\* changes lyricsOffset by exactly the requested +0.5 or -0.5, the line shown
\* after it is found with the new offset, and the score, the silence streak,
\* the playing state and the game loop are as they were.
C30_SyncAdjustmentOnlyMovesOffset ==
    [][/\ (InSession /\ isPlaying) => isPlayerReady
       /\ \A a \in {-SyncStep, SyncStep} :
            HandleAdjustSync(a) =>
                /\ lyricsOffset' = lyricsOffset + a
                /\ activeLine' = ActiveLineOf(lyrics, currentTime,
                                              lyricsOffset + a)
                /\ score' = score
                /\ noSingingCounter' = noSingingCounter
                /\ isPlaying' = isPlaying
                /\ playerState' = playerState
                /\ loopFrame' = loopFrame
                /\ loopStale' = loopStale]_vars

\* C30 witness: during playback, with points scored, the offset has been
\* lowered by 0.5 and the first line, which the unadjusted offset would show,
\* is not shown yet
C30_Witness ==
    /\ InSession
    /\ isPlaying
    /\ loopFrame
    /\ score > 0
    /\ lyricsOffset = -SyncStep
    /\ activeLine = None
    /\ ActiveLineOf(lyrics, currentTime, 0) # None

\* C27 as stated: the score gameTick passes to onSongEnd is the sum of the
\* points the ticks of the session have awarded; no awarded increment is
\* missing from it.
C27_ReportedScoreIsSumOfAwards ==
    [][EndTickStep => finalScore' = score]_vars

\* C28 as stated: no game tick runs while the player is not in the PLAYING
\* state; ticks run only after the player has reported PLAYING.
C28_TicksOnlyWhilePlayerPlaying ==
    [][TickStep => playerState = "PLAYING"]_vars

\* C26 as stated: a session whose playback was started and is left running
\* (not paused by the user) eventually reaches the end-of-song transition and
\* the app reaches SCORE, also when the player reports ENDED before the
\* playback time reaches the lyric-derived duration.
C26_RunningSessionReachesScore ==
    (InSession /\ playerState = "PLAYING")
        ~> (appState = "SCORE" \/ playerState = "PAUSED")

\* the correlation sum of C31 for lag L: the sum over i in 0..M-1 of
\* x[i] * x[i + L] with M = N / 2, in hundredths
RECURSIVE SumOfProducts(_, _, _)
SumOfProducts(x, L, m) ==
    IF m = 0 THEN 0 ELSE x[m] * x[m + L] + SumOfProducts(x, L, m - 1)

\* the frequencies a search over the lags of the set lags may return for x:
\* sampleRate / L for a lag of the largest correlation when that correlation
\* is above the threshold, 0 when it is not above it
SearchOver(x, lags) ==
    LET M == Len(x) \div 2
        top == CHOOSE l \in lags :
                    \A k \in lags : SumOfProducts(x, k, M) <= SumOfProducts(x, l, M)
    IN  IF SumOfProducts(x, top, M) > CorrelationThreshold * M
        THEN {SampleRate \div l :
                l \in {k \in lags : SumOfProducts(x, k, M)
                                        = SumOfProducts(x, top, M)}}
        ELSE {0}

SearchedBuffers ==
    {[f |-> ab.f,
      upTo     |-> SearchOver(ab.buffer, MinLag..(Len(ab.buffer) \div 2)),
      below    |-> SearchOver(ab.buffer, MinLag..(Len(ab.buffer) \div 2 - 1)),
      inFrame  |-> IndicesRead(ab.buffer) \subseteq 0..(Len(ab.buffer) - 1),
      lastRead |-> Len(ab.buffer) - 2 \in IndicesRead(ab.buffer)] :
        ab \in AnalysedBuffers}

\* C31 as stated: the search covers every lag L with 80 <= L <= N / 2, both
\* ends included, with the correlation (1 / M) * sum of x[i] * x[i + L] over
\* i in 0..M-1, M = N / 2, and reads no index outside the frame.
C31_SearchCoversLagsUpToHalf ==
    [][\A sb \in SearchedBuffers :
          (InSession /\ \E v \in LoudnessValues : ProcessAudio(v, sb.f))
              => fundamentalFreq' \in sb.upTo /\ sb.inFrame]_vars

\* C31, amended: the search covers every lag L with 80 <= L < N / 2 (the lag
\* N / 2 itself is not tried), with the correlation of the claim, and every
\* index it reads is inside the frame (the largest is N - 2).
C31_SearchCoversLagsBelowHalf ==
    [][\A sb \in SearchedBuffers :
          (InSession /\ \E v \in LoudnessValues : ProcessAudio(v, sb.f))
              => /\ fundamentalFreq' \in sb.below
                 /\ sb.inFrame
                 /\ sb.lastRead]_vars

\* C31 witness: a published frame whose pitch was found at the last lag
\* tried, N / 2 - 1
C31_Witness ==
    /\ InSession
    /\ isMicReady
    /\ fundamentalFreq = SampleRate \div (BufferLength \div 2 - 1)

\* a step in which the hook publishes a frame of PitchFrames to the session
PitchFrameStep ==
    /\ InSession
    /\ \E fr \in PitchFrames :
          \/ ProcessAudio(fr.v, fr.f)
          \/ \E i \in 1..MaxRequests : MicResolve(i, fr.v, fr.f)

\* clamp((f - 100) / 4, 0, 100) in hundredths
Clamped(f) ==
    IF f <= 100 THEN 0 ELSE IF f >= 500 THEN 10000 ELSE 25 * (f - 100)

\* C32: the pitch published for a frame lies in [0, 100]; for a frame with
\* rms > 0.01 it is clamp((f - 100) / 4, 0, 100) of the frame's frequency,
\* so not lower than the pitch of a preceding loud frame of lower or equal
\* frequency; for a frame with rms <= 0.01 it is 50.
C32_PublishedPitchClampedOrCentred ==
    [][PitchFrameStep =>
          /\ userPitch' \in 0..10000
          /\ micVolume' > QuietThreshold =>
                /\ userPitch' = Clamped(fundamentalFreq')
                /\ (micVolume > QuietThreshold
                        /\ fundamentalFreq <= fundamentalFreq')
                       => userPitch <= userPitch'
          /\ micVolume' <= QuietThreshold => userPitch' = 5000]_vars

\* C32 witness: a frame at exactly rms 0.01 has been published with the
\* centred pitch, its frequency being one that maps elsewhere
C32_Witness ==
    /\ InSession
    /\ isMicReady
    /\ micVolume = QuietThreshold
    /\ fundamentalFreq = 300
    /\ userPitch = 5000

\* C33: in the lyrics parseLRC returned for a text with at least one
\* well-formed line, every line but the last ends at the start time of the
\* line after it, and the last line ends 5 seconds after its own start.
C33_LinesEndWhereNextStarts ==
    Len(lyrics) > 0 =>
        /\ \A i \in 1..(Len(lyrics) - 1) :
                lyrics[i].endTime = lyrics[i + 1].startTime
        /\ lyrics[Len(lyrics)].endTime
                = lyrics[Len(lyrics)].startTime + LastLineSeconds

\* C33 witness: a session whose lyrics have a line that ends at the assumed
\* song duration of 180 s because the line after it starts there, and whose
\* last line starts before that
C33_Witness ==
    /\ appState = "KARAOKE"
    /\ Len(lyrics) = 3
    /\ lyrics[1].endTime = SONG_DURATION_S
    /\ lyrics[2].startTime = SONG_DURATION_S
    /\ lyrics[3].startTime < lyrics[2].startTime

\* the step of handleStartKaraoke that calls addSongToHistory(details)
AddSongStep == appState = "LOADING_LYRICS" /\ appState' = "KARAOKE"

\* the entries of h, from index 0, that have another url than song
OtherSongs(h, song) ==
    {i \in 1..Len(h) : h[i].youtubeUrl # song.youtubeUrl}

\* C34: starting from the empty history, after every addSongToHistory call
\* the history holds at most 5 songs and no two with the same youtubeUrl,
\* the added song is at index 0 and the songs added before it follow in
\* their previous order, and adding the song that is at index 0 leaves the
\* history as it was.
C34_HistoryCappedUniqueLatestFirst ==
    [][AddSongStep =>
          LET others == OtherSongs(history, details)
          IN  /\ Len(history') = Min(5, Cardinality(others) + 1)
              /\ \A i, j \in 1..Len(history') :
                    i # j => history'[i].youtubeUrl # history'[j].youtubeUrl
              /\ history'[1] = details
              /\ \A i \in others :
                    LET r == Cardinality({j \in others : j <= i})
                    IN  r + 1 <= 5 => history'[r + 1] = history[i]
              /\ (history # << >> /\ history[1] = details)
                    => history' = history]_vars

\* C34 witness: a session of a song has started with five songs in the
\* history, the song first, under a title other than the one its video was
\* first given
C34_Witness ==
    /\ appState = "KARAOKE"
    /\ Len(history) = 5
    /\ history[1] = SongDetails("t2", "v1")
    /\ songDetails = history[1]
    /\ \E i \in 2..5 : history[i].youtubeUrl = "v6"

\* C35: the history changes only in the step of handleStartKaraoke that
\* got at least one lyric line, and a start that fails (fetchLyrics rejects,
\* or no line is parsed) returns to HOME with the history, the stored lyrics
\* and the song details as they were.
C35_HistoryOnlyOnLoadedLyrics ==
    [][/\ history' # history => (AddSongStep /\ Len(lyrics') >= 1)
       /\ (appState = "LOADING_LYRICS" /\ appState' = "HOME") =>
             /\ history' = history
             /\ lyrics' = lyrics
             /\ songDetails' = songDetails]_vars

\* C35 witness: the start of the video v2 has failed and the history still
\* holds only the song played before
C35_Witness ==
    /\ appState = "HOME"
    /\ appError
    /\ processingVideoId = "v2"
    /\ history = << Song >>

\* the parts of C36: the fallback has been invoked once the primary call
\* has failed, timed out (at 12 s, not before) or returned an empty
\* response; it is invoked at most once per fetchLyrics call; fetchLyrics
\* has rejected only after both the primary and the fallback failed
PrimaryFailures == {"failed", "timeout", "empty"}
FallbackInvokedOnFailure ==
    /\ fetch.primary \in PrimaryFailures => fetch.fallbackCalls >= 1
    /\ fetch.primary = "timeout" => fetch.elapsed = TimeoutSeconds
    /\ fetch.fallbackCalls >= 1 => fetch.primary \in PrimaryFailures
FallbackInvokedAtMostOnce == fetch.fallbackCalls <= 1
RejectsOnlyAfterBothFailed ==
    fetch.pc = "rejected" =>
        fetch.primary \in PrimaryFailures /\ fetch.fallback = "failed"

\* C36: fetchLyrics (fallback variant) invokes the fallback provider
\* whenever the primary call fails, times out after 12 seconds or returns
\* an empty response, invokes it at most once per call, and rejects only
\* when both the primary and the fallback have failed.
C36_FallbackOnceAndRejectsAfterBoth ==
    /\ FallbackInvokedOnFailure
    /\ FallbackInvokedAtMostOnce
    /\ RejectsOnlyAfterBothFailed

\* the tomato with this id is in the active list
Active(id) == \E i \in 1..Len(tomatoes) : tomatoes[i] = id

\* C37: while the karaoke screen stays mounted, every tomato in the active
\* list is removed from it, it leaves the list only in the step in which
\* 2 seconds have passed since it was created, it never stays in the list
\* beyond them, and the step that removes it leaves every other tomato in
\* the list, in the same order.
C37_TomatoRemovedAfterTwoSeconds ==
    /\ \A id \in 1..MaxShower : (InSession /\ Active(id)) ~> ~Active(id)
    /\ [][\A id \in 1..MaxShower :
            /\ (InSession /\ Active(id)) =>
                    \E t \in removeTimers :
                        t.id = id /\ t.elapsed <= TomatoLifetime
            /\ (InSession' /\ Active(id) /\ ~Active(id)') =>
                    /\ Timer(id, TomatoLifetime) \in removeTimers
                    /\ tomatoes' = SelectSeq(tomatoes, LAMBDA t : t # id)]_vars

\* C37 witness: two tomatoes were thrown, the first has been removed when
\* its 2 seconds had passed and the second, thrown a second after it, is
\* still in the list
C37_Witness ==
    /\ InSession
    /\ tomatoesThrown = 2
    /\ tomatoes = << 2 >>
    /\ removeTimers = {Timer(2, TomatoLifetime \div 2)}

\* C38: the step that starts a karaoke session leaves score 0, silence
\* streak 0 and lyric offset 0, whatever they were before; within a session
\* a pause or resume, an offset adjustment and a device switch leave the
\* score and the silence streak as they were, and so does every other step
\* that is not a tick of the game loop.
C38_SessionStartsAtZeroAndKeepsCounts ==
    [][/\ (~InSession /\ InSession') =>
            /\ score' = 0
            /\ noSingingCounter' = 0
            /\ lyricsOffset' = 0
       /\ (/\ InSession /\ InSession'
           /\ \/ isPlaying' # isPlaying
              \/ lyricsOffset' # lyricsOffset
              \/ selectedMicId' # selectedMicId
              \/ ~TickStep) =>
            /\ score' = score
            /\ noSingingCounter' = noSingingCounter]_vars

\* C38 witness: in a session with points scored and a silence streak under
\* way, the singer has moved the offset, switched to another microphone and
\* paused
C38_Witness ==
    /\ InSession
    /\ score > 0
    /\ noSingingCounter > 0
    /\ lyricsOffset # 0
    /\ selectedMicId # NoDevice
    /\ playerState = "PAUSED"
    /\ ~isPlaying

\* C39 as stated: at any time at most one processAudio animation-frame loop
\* is running in the pitch-detection hook, for every interleaving of device
\* changes, unmount and getUserMedia resolutions.
C39_AtMostOneAudioLoop == audioLoops <= 1

\* the parts of C40: a ready hook holds a live stream of the selected
\* device and no error; a request of a deselected device that settles late
\* changes none of isMicReady, error and the attached stream
ReadyMeansLiveCurrentStream ==
    isMicReady => /\ Live(CurrentRequest)
                  /\ streamRef = CurrentRequest
                  /\ ~micError
LateSettlementChangesNothing ==
    \A i \in 1..(Len(requests) - 1) :
        (ResolveStep(i) \/ MicFail(i)) =>
            /\ isMicReady' = isMicReady
            /\ micError' = micError
            /\ streamRef' = streamRef

\* C40 as stated: whenever isMicReady is true, a live (not stopped) stream
\* of the currently selected device is attached and error is null; the late
\* failure or late success of an acquisition for a previously selected
\* device never changes isMicReady, error or the attached stream of the
\* current device.
C40_ReadyMeansLiveStreamOfSelectedDevice ==
    /\ []ReadyMeansLiveCurrentStream
    /\ [][LateSettlementChangesNothing]_vars

====
